---- MODULE Spec2Model ----
(***************************************************************************)
(* FlyClient prototype (flyclient_ethereum): the store-based difficulty-   *)
(* weighted Merkle Mountain Range (mmr/persistent_mmr.rs), its multi-leaf  *)
(* proofs (mmr/proof.rs) and the non-interactive sampler's block check     *)
(* (lib.rs).                                                               *)
(*                                                                         *)
(* Hashes are symbolic: a leaf hash is the one-element tuple <<h>>, the    *)
(* sha3-256 of two serialized nodes is the tuple of what was hashed, so    *)
(* two hashes are equal exactly when their inputs are (no collisions).     *)
(***************************************************************************)
EXTENDS Integers, Sequences, FiniteSets, TLC

\* ------------------------------------------------------------------ bounds
MaxLeaves == 5
MaxDifficulty == 2
Difficulties == 0..MaxDifficulty

\* trees that are proved: at most MaxProofLeaves leaves with these difficulties
\* (7 / 25 is a quotient the f64 arithmetic does not keep exact)
MaxProofLeaves == 3
ProofDifficulties == {1, 7, 17}
\* a request names at most MaxQueries blocks
MaxQueries == 2
\* sampled weights are the multiples of 1 / WeightDen in [0, 1)
WeightDen == 2

\* trees whose proofs are altered on the way to the verifier
MaxVerifyLeaves == 3
VerifyDifficulties == {1, 2}

\* block lists handed to verify_required_blocks
MaxBlocks == 2

\* the hash of block number: every block has its own (H256::from_low_u64_be(number))
BlockHash(number) == <<number>>

VARIABLES
    leaf_number,   \* MerkleTree.leaf_number
    datastore,     \* InMemoryMerkleTree.tree, as the sequence of its 48-byte nodes
    leaves,        \* history: the (hash, difficulty) pairs inserted so far, in order
    merkle_tree,   \* mmr::MerkleTree, the tree of boxes, given the leaves of the store
                   \* (left as it is where the difficulties are sixteen bytes)
    call,          \* the last public call made and what it returned
    response_proof,      \* the Proof the prover produced, as the verifier holds it
    response_blocks,     \* the block numbers that come with the proof
    sampled_weights,     \* the sampled aggregate weights for this root (sorted)
    blocks_with_weight,  \* the Vec<ProofBlock> the verifier is about to check
    origin,              \* how blocks_with_weight was made
    pristine,            \* response_proof.elem is as generate_proof returned it
    verified,            \* the last verify_proof call: its inputs and its result
    disk,                \* the MMR file, as the sequence of its 48-byte slots
    attached,            \* the MerkleTree opened on the file, and its backend
    frame,               \* the bytes of a serialized Proof, Request or Response
    decoded,             \* the last deserialize call and what it returned
    connection,          \* the server's connection: what was read and written
    running,             \* the AtomicBool the Ctrl-C handler clears
    request_channel,     \* the RequestTypes sent and not yet received
    response_channel,    \* the Responses sent on the channel of every connection
    listener,            \* the thread of the TcpListener, and what it wrote
    block_header_thread  \* BlockHeaderThread: where it is in run, and its fields

vars == <<leaf_number, datastore, leaves, merkle_tree,
          call, response_proof, response_blocks,
          sampled_weights, blocks_with_weight, origin, pristine, verified,
          disk, attached, frame, decoded, connection,
          running, request_channel, response_channel, listener, block_header_thread>>

\* ------------------------------------------------------- integer helpers
RECURSIVE is_power_of_two(_)
is_power_of_two(n) ==
    IF n = 0 THEN FALSE
    ELSE IF n = 1 THEN TRUE
    ELSE IF n % 2 = 1 THEN FALSE
    ELSE is_power_of_two(n \div 2)

RECURSIVE next_power_of_two_from(_, _)
next_power_of_two_from(p, n) == IF p >= n THEN p ELSE next_power_of_two_from(2 * p, n)

next_power_of_two(n) == next_power_of_two_from(1, n)

RECURSIVE TwoPow(_)
TwoPow(k) == IF k <= 0 THEN 1 ELSE 2 * TwoPow(k - 1)

\* ------------------------------------------------------------ f64 values
\* An f64 is NaN, zero, or m * 2^e with m a 53-bit significand, kept as its bits
\* (most significant first, m[1] = 1). Only the operations the program applies
\* are modelled, each rounded to nearest, ties to even, as IEEE-754 does.
MantissaBits == 53

F64NaN == [kind |-> "nan", m |-> <<>>, e |-> 0]
F64Zero == [kind |-> "num", m |-> <<>>, e |-> 0]

RECURSIVE BitsOfNat(_)
BitsOfNat(n) == IF n = 0 THEN <<>> ELSE Append(BitsOfNat(n \div 2), n % 2)

RECURSIVE NatOfBits(_)
NatOfBits(bits) ==
    IF bits = <<>> THEN 0
    ELSE IF Len(bits) = 1 THEN bits[1]
    ELSE LET half == Len(bits) \div 2
             low == SubSeq(bits, half + 1, Len(bits))
         IN  NatOfBits(SubSeq(bits, 1, half)) * TwoPow(Len(low)) + NatOfBits(low)

Zeros(n) == [i \in 1..n |-> 0]

\* n in exactly width bits
PadBits(n, width) == LET b == BitsOfNat(n) IN Zeros(width - Len(b)) \o b

AnyOne(bits) == \E i \in 1..Len(bits) : bits[i] = 1

\* bits + 1; a carry out of the first position prepends a 1
IncrementBits(bits) ==
    IF \A i \in 1..Len(bits) : bits[i] = 1 THEN <<1>> \o Zeros(Len(bits))
    ELSE [i \in 1..Len(bits) |->
              IF \A j \in (i + 1)..Len(bits) : bits[j] = 1 THEN 1 - bits[i] ELSE bits[i]]

\* round the exact value bits * 2^e (bits[1] = 1) to 53 significant bits
F64Round(bits, rest_nonzero, e) ==
    IF Len(bits) <= MantissaBits /\ ~rest_nonzero
    THEN [kind |-> "num", m |-> bits \o Zeros(MantissaBits - Len(bits)),
          e |-> e - (MantissaBits - Len(bits))]
    ELSE LET kept == SubSeq(bits, 1, MantissaBits)
             dropped == SubSeq(bits, MantissaBits + 1, Len(bits))
             guard == IF dropped = <<>> THEN 0 ELSE dropped[1]
             sticky == rest_nonzero \/ AnyOne(SubSeq(dropped, 2, Len(dropped)))
             up == guard = 1 /\ (sticky \/ kept[MantissaBits] = 1)
             e1 == e + Len(dropped)
             inc == IncrementBits(kept)
         IN  IF ~up THEN [kind |-> "num", m |-> kept, e |-> e1]
             ELSE IF Len(inc) = MantissaBits THEN [kind |-> "num", m |-> inc, e |-> e1]
             ELSE [kind |-> "num", m |-> SubSeq(inc, 1, MantissaBits), e |-> e1 + 1]

\* n as f64, for n < 2^53 (exact)
F64FromNat(n) == IF n = 0 THEN F64Zero ELSE F64Round(BitsOfNat(n), FALSE, 0)

RECURSIVE Pow2Mod(_, _)
\* 2^i mod d
Pow2Mod(i, d) ==
    IF i = 0 THEN 1 % d
    ELSE LET h == Pow2Mod(i \div 2, d)
             sq == (h * h) % d
         IN  IF i % 2 = 1 THEN (2 * sq) % d ELSE sq

\* long division of r / d (r < d): the remainder before the i-th next bit, and
\* the first count bits
RemainderAt(r, d, i) == (r * Pow2Mod(i, d)) % d
QuotientBits(r, d, count) ==
    [i \in 1..count |-> IF 2 * RemainderAt(r, d, i - 1) >= d THEN 1 ELSE 0]

RECURSIVE LeadingShift(_, _)
\* the least s with a * 2^s >= d
LeadingShift(a, d) == IF a >= d THEN 0 ELSE 1 + LeadingShift(2 * a, d)

\* (a as f64) / (d as f64) for naturals a <= d
F64DivNat(a, d) ==
    IF d = 0 THEN F64NaN                 \* 0.0 / 0.0
    ELSE IF a = 0 THEN F64Zero
    ELSE LET s == LeadingShift(a, d)
             r0 == TwoPow(s) * a - d     \* the leading quotient bit is 1
         IN  F64Round(<<1>> \o QuotientBits(r0, d, MantissaBits + 1),
                      RemainderAt(r0, d, MantissaBits + 1) # 0,
                      0 - s - MantissaBits - 1)

\* the significand is multiplied ChunkBits bits at a time
ChunkBits == 15

RECURSIVE MulBits(_, _, _, _)
\* bits * t, from the least significant chunk up
MulBits(bits, t, carry, out) ==
    IF bits = <<>> THEN BitsOfNat(carry) \o out
    ELSE LET n == Len(bits)
             w == IF n >= ChunkBits THEN ChunkBits ELSE n
             v == NatOfBits(SubSeq(bits, n - w + 1, n)) * t + carry
         IN  MulBits(SubSeq(bits, 1, n - w), t, v \div TwoPow(w),
                     PadBits(v % TwoPow(w), w) \o out)

\* x * (t as f64) for a natural t
F64MulNat(x, t) ==
    IF x.kind = "nan" THEN F64NaN
    ELSE IF x.m = <<>> \/ t = 0 THEN F64Zero
    ELSE F64Round(MulBits(x.m, t, 0, <<>>), FALSE, x.e)

\* the integer part of a finite x >= 0 and whether a fraction is left
F64Split(x) ==
    IF x.m = <<>> THEN [int |-> 0, frac |-> FALSE]
    ELSE IF x.e >= 0 THEN [int |-> NatOfBits(x.m) * TwoPow(x.e), frac |-> FALSE]
    ELSE LET nint == MantissaBits + x.e
         IN  IF nint <= 0 THEN [int |-> 0, frac |-> TRUE]
             ELSE [int |-> NatOfBits(SubSeq(x.m, 1, nint)),
                   frac |-> AnyOne(SubSeq(x.m, nint + 1, MantissaBits))]

\* x.ceil() of a finite x >= 0, as the integer it equals
F64Ceil(x) == LET s == F64Split(x) IN IF s.frac THEN s.int + 1 ELSE s.int

\* x as u128: NaN gives 0, a finite x >= 0 is truncated
F64AsU128(x) == IF x.kind = "nan" THEN 0 ELSE F64Split(x).int

\* ------------------------------------------------------------- MMR nodes
MmrElem(hash, difficulty) == [hash |-> hash, difficulty |-> difficulty]

\* sha3-256(serialize(left) ++ serialize(right)); serialize = hash ++ difficulty
hash_children(left, right) ==
    <<left.hash, left.difficulty, right.hash, right.difficulty>>

node_to_leaf_number(node_number) == (node_number + 1) \div 2

leaf_to_node_number(leaf_nb) == (2 * leaf_nb) - 1

get_left_leaf_number(leaf_nb) ==
    IF is_power_of_two(leaf_nb) THEN leaf_nb \div 2
    ELSE next_power_of_two(leaf_nb) \div 2

RECURSIVE get_node_number_loop(_, _)
get_node_number_loop(position, remaining) ==
    IF remaining = 0 THEN position
    ELSE LET left_tree_leaf_number ==
                 IF is_power_of_two(remaining) THEN remaining
                 ELSE next_power_of_two(remaining) \div 2
         IN  get_node_number_loop(
                 position + left_tree_leaf_number + left_tree_leaf_number - 1,
                 remaining - left_tree_leaf_number)

\* number of nodes the store holds before leaf number leaf_nb
get_node_number(leaf_nb) == get_node_number_loop(0, leaf_nb)

\* ------------------------------------------------------------- Datastore
\* node_number counts from 0; the element carries its position_in_datastore
get_elem(store, node_number) ==
    [hash |-> store[node_number + 1].hash,
     difficulty |-> store[node_number + 1].difficulty,
     position |-> node_number]

get_root_elem(store) == get_elem(store, Len(store) - 1)

write_elem(store, elem) == Append(store, MmrElem(elem.hash, elem.difficulty))

\* the store with nothing removed
remove_last_elem_keeps_elem(store) == store

\* the store with one element too many removed
remove_last_elem_twice(store) == SubSeq(store, 1, Len(store) - 2)

remove_last_elem(store) == SubSeq(store, 1, Len(store) - 1)

get_len(store) == Len(store)

\* ------------------------------------------------------------ MerkleTree
\* first loop of append_leaf: drop the roots of the unbalanced right spine and
\* collect the roots of the perfect subtrees to its left
RECURSIVE append_collect(_, _, _, _)
append_collect(store, nodes_to_hash, curr_tree_number, aggr_node_number) ==
    IF is_power_of_two(curr_tree_number)
    THEN [store |-> store, nodes_to_hash |-> nodes_to_hash]
    ELSE LET store1 == remove_last_elem(store)
             left_tree_number == next_power_of_two(curr_tree_number) \div 2
             aggr1 == aggr_node_number + left_tree_number
             right_tree_number == curr_tree_number - left_tree_number
             left_root_node_number == get_node_number(aggr1) - 1
         IN  append_collect(store1,
                            Append(nodes_to_hash, get_elem(store1, left_root_node_number)),
                            right_tree_number,
                            aggr1)

combine_left_only(curr_left_elem, curr_right_elem) ==
    MmrElem(hash_children(curr_left_elem, curr_right_elem), curr_left_elem.difficulty)

\* the parent of two siblings
combine(curr_left_elem, curr_right_elem) ==
    MmrElem(hash_children(curr_left_elem, curr_right_elem),
            curr_left_elem.difficulty + curr_right_elem.difficulty)

\* second loop of append_leaf: hash from the right, writing every new parent
RECURSIVE append_hash(_, _)
append_hash(store, nodes_to_hash) ==
    IF Len(nodes_to_hash) <= 1 THEN store
    ELSE LET n == Len(nodes_to_hash)
             curr_right_elem == nodes_to_hash[n]
             curr_left_elem == nodes_to_hash[n - 1]
             new_intermediate_node == combine(curr_left_elem, curr_right_elem)
         IN  append_hash(write_elem(store, new_intermediate_node),
                         Append(SubSeq(nodes_to_hash, 1, n - 2), new_intermediate_node))

\* the store after append_leaf(hash, difficulty) on a tree of leaf_nb leaves
append_leaf(store, leaf_nb, hash, difficulty) ==
    LET new_elem == MmrElem(hash, difficulty)
        c == append_collect(store, <<>>, leaf_nb, 0)
        nodes1 == Append(c.nodes_to_hash, get_root_elem(c.store))
        store1 == write_elem(c.store, new_elem)
        nodes2 == Append(nodes1, new_elem)
    IN  append_hash(store1, nodes2)

get_root_hash(store) == get_root_elem(store).hash

get_root_difficulty(store) == get_root_elem(store).difficulty

\* Outcome of a call: it returns a value, aborts (panic), or never returns.
Return(v) == [kind |-> "Return", value |-> v]
Panic == [kind |-> "Panic", value |-> 0]
Loop == [kind |-> "Loop", value |-> 0]

\* the while loop of get_left_difficulty. An iteration with left_tree_number = 0
\* (curr_tree_number = 1) leaves aggr_node_number and curr_tree_number, the only
\* values its guard reads, unchanged: the loop never exits.
RECURSIVE get_left_difficulty_loop(_, _, _, _, _)
get_left_difficulty_loop(store, leaf_nb, aggr_weight, aggr_node_number, curr_tree_number) ==
    IF ~(aggr_node_number < leaf_nb) THEN Return(aggr_weight)
    ELSE LET left_tree_number ==
                 IF is_power_of_two(curr_tree_number) THEN curr_tree_number \div 2
                 ELSE next_power_of_two(curr_tree_number) \div 2
         IN  IF leaf_nb >= aggr_node_number + left_tree_number
             THEN \* branch right
                  LET aggr1 == aggr_node_number + left_tree_number
                      node_count == get_node_number(aggr1)
                  IN  IF node_count = 0 \/ node_count > Len(store) THEN Panic
                      ELSE IF left_tree_number = 0 THEN Loop
                      ELSE get_left_difficulty_loop(
                               store, leaf_nb,
                               aggr_weight + get_elem(store, node_count - 1).difficulty,
                               aggr1,
                               curr_tree_number - left_tree_number)
             ELSE \* branch left
                  get_left_difficulty_loop(store, leaf_nb, aggr_weight,
                                           aggr_node_number, left_tree_number)

get_left_difficulty(store, tree_leaf_number, leaf_nb) ==
    get_left_difficulty_loop(store, leaf_nb, 0, 0, tree_leaf_number)

RECURSIVE disc_loop_strict(_, _, _, _, _)
\* the descent with a weight on a subtree boundary sent left
disc_loop_strict(store, weight, aggr_weight, aggr_node_number, curr_tree_number) ==
    IF ~(curr_tree_number > 1) THEN aggr_node_number
    ELSE LET left_tree_number == get_left_leaf_number(curr_tree_number)
             left_tree_difficulty ==
                 get_elem(store, get_node_number(aggr_node_number + left_tree_number) - 1).difficulty
         IN  IF weight > aggr_weight + left_tree_difficulty
             THEN disc_loop_strict(store, weight, aggr_weight + left_tree_difficulty,
                                   aggr_node_number + left_tree_number,
                                   curr_tree_number - left_tree_number)
             ELSE disc_loop_strict(store, weight, aggr_weight,
                                   aggr_node_number, left_tree_number)

get_child_by_aggr_weight_disc_strict(store, tree_leaf_number, weight) ==
    disc_loop_strict(store, weight, 0, 0, tree_leaf_number)

RECURSIVE disc_loop_no_accumulate(_, _, _, _, _)
\* the descent with the weight of the subtrees passed on the left forgotten
disc_loop_no_accumulate(store, weight, aggr_weight, aggr_node_number, curr_tree_number) ==
    IF ~(curr_tree_number > 1) THEN aggr_node_number
    ELSE LET left_tree_number == get_left_leaf_number(curr_tree_number)
             left_tree_difficulty ==
                 get_elem(store, get_node_number(aggr_node_number + left_tree_number) - 1).difficulty
         IN  IF weight >= aggr_weight + left_tree_difficulty
             THEN disc_loop_no_accumulate(store, weight, aggr_weight,
                                          aggr_node_number + left_tree_number,
                                          curr_tree_number - left_tree_number)
             ELSE disc_loop_no_accumulate(store, weight, aggr_weight,
                                          aggr_node_number, left_tree_number)

get_child_by_aggr_weight_disc_no_accumulate(store, tree_leaf_number, weight) ==
    disc_loop_no_accumulate(store, weight, 0, 0, tree_leaf_number)

RECURSIVE get_child_by_aggr_weight_disc_loop(_, _, _, _, _)
get_child_by_aggr_weight_disc_loop(store, weight, aggr_weight, aggr_node_number, curr_tree_number) ==
    IF ~(curr_tree_number > 1) THEN aggr_node_number
    ELSE LET left_tree_number ==
                 IF is_power_of_two(curr_tree_number) THEN curr_tree_number \div 2
                 ELSE next_power_of_two(curr_tree_number) \div 2
             left_tree_difficulty ==
                 get_elem(store, get_node_number(aggr_node_number + left_tree_number) - 1).difficulty
         IN  IF weight >= aggr_weight + left_tree_difficulty
             THEN \* branch right
                  LET aggr1 == aggr_node_number + left_tree_number
                      left_root_node_number == get_node_number(aggr1) - 1
                  IN  get_child_by_aggr_weight_disc_loop(
                          store, weight,
                          aggr_weight + get_elem(store, left_root_node_number).difficulty,
                          aggr1,
                          curr_tree_number - left_tree_number)
             ELSE \* branch left
                  get_child_by_aggr_weight_disc_loop(store, weight, aggr_weight,
                                                     aggr_node_number, left_tree_number)

get_child_by_aggr_weight_disc(store, tree_leaf_number, weight) ==
    get_child_by_aggr_weight_disc_loop(store, weight, 0, 0, tree_leaf_number)

\* ------------------------------------------------------ children of a node
RECURSIVE children_search(_, _, _)
\* the common loop of has_children and get_children: descend to the subtree whose
\* root is the element; [found, left, right] with the node numbers of its children
children_search(elem_node_number, curr_root_node_number, aggr_node_number) ==
    IF ~(curr_root_node_number > 2) THEN [found |-> FALSE, left |-> 0, right |-> 0]
    ELSE LET leaf_nb == node_to_leaf_number(curr_root_node_number)
             left_tree_leaf_number == get_left_leaf_number(leaf_nb)
             left_tree_node_number == leaf_to_node_number(left_tree_leaf_number)
         IN  IF aggr_node_number + curr_root_node_number = elem_node_number + 1
             THEN [found |-> TRUE,
                   left |-> aggr_node_number + left_tree_node_number - 1,
                   right |-> aggr_node_number + curr_root_node_number - 2]
             ELSE IF elem_node_number < aggr_node_number + left_tree_node_number
             THEN children_search(elem_node_number, left_tree_node_number, aggr_node_number)
             ELSE children_search(elem_node_number,
                                  curr_root_node_number - left_tree_node_number - 1,
                                  aggr_node_number + left_tree_node_number)

has_children(store, elem) ==
    children_search(elem.position, get_len(store), 0).found

\* the children the other way round
get_children_swapped(store, elem) ==
    LET c == children_search(elem.position, get_len(store), 0)
    IN  <<get_elem(store, c.right), get_elem(store, c.left)>>

get_children(store, elem) ==
    LET c == children_search(elem.position, get_len(store), 0)
    IN  <<get_elem(store, c.left), get_elem(store, c.right)>>

RECURSIVE floor_log2(_)
floor_log2(n) == IF n <= 1 THEN 0 ELSE 1 + floor_log2(n \div 2)

\* 64 - leading_zeros - 1, plus one unless a power of two (leaf_nb >= 1)
get_depth(leaf_nb) ==
    IF is_power_of_two(leaf_nb) THEN floor_log2(leaf_nb) ELSE floor_log2(leaf_nb) + 1

\* ------------------------------------------------------------------ proofs
Child(hash, difficulty) ==
    [type |-> "Child", hash |-> hash, difficulty |-> difficulty, dir |-> FALSE, leaf_number |-> 0]
\* dir: left -> FALSE, right -> TRUE
Node(hash, difficulty, dir) ==
    [type |-> "Node", hash |-> hash, difficulty |-> difficulty, dir |-> dir, leaf_number |-> 0]
Root(hash, difficulty, leaf_nb) ==
    [type |-> "Root", hash |-> hash, difficulty |-> difficulty, dir |-> FALSE, leaf_number |-> leaf_nb]

Proof(root_hash, root_difficulty, leaf_nb, elem) ==
    [root_hash |-> root_hash, root_difficulty |-> root_difficulty,
     leaf_number |-> leaf_nb, elem |-> elem]

NoProof == Proof(<<>>, 0, 0, <<>>)

None == [some |-> FALSE, w |-> F64Zero]
Some(w) == [some |-> TRUE, w |-> w]
ProofBlock(number, aggr_weight) == [number |-> number, aggr_weight |-> aggr_weight]

RECURSIVE SortedSeq(_)
\* the elements of a set of numbers in ascending order
SortedSeq(S) ==
    IF S = {} THEN <<>>
    ELSE LET m == CHOOSE x \in S : \A y \in S : x <= y
         IN  <<m>> \o SortedSeq(S \ {m})

\* block_numbers.sort(); block_numbers.dedup()
sort_dedup(block_numbers) ==
    SortedSeq({block_numbers[i] : i \in 1..Len(block_numbers)})

RemoveAt(seq, k) == SubSeq(seq, 1, k - 1) \o SubSeq(seq, k + 1, Len(seq))

\* block_numbers.sort()
RECURSIVE sort(_)
sort(block_numbers) ==
    IF block_numbers = <<>> THEN <<>>
    ELSE LET least == CHOOSE i \in 1..Len(block_numbers) :
                          \A j \in 1..Len(block_numbers) :
                              block_numbers[i] < block_numbers[j]
                              \/ (block_numbers[i] = block_numbers[j] /\ i <= j)
         IN  <<block_numbers[least]>> \o sort(RemoveAt(block_numbers, least))

RECURSIVE generate_proof_recursive(_, _, _, _, _)
\* the proof elements pushed for current_node, in order
generate_proof_recursive(store, current_node, block_numbers, max_left_tree_leaf_number, leaf_number_sub_tree) ==
    IF ~has_children(store, current_node)
    THEN <<Child(current_node.hash, current_node.difficulty)>>
    ELSE LET children == get_children(store, current_node)
             left_node == children[1]
             right_node == children[2]
             \* binary_search + split_at_mut on the sorted slice
             left == SelectSeq(block_numbers, LAMBDA x : x < max_left_tree_leaf_number)
             right == SelectSeq(block_numbers, LAMBDA x : x >= max_left_tree_leaf_number)
             next_left_leaf_number_subtree == get_left_leaf_number(leaf_number_sub_tree)
             depth_l == get_depth(next_left_leaf_number_subtree)
             diff_l == IF depth_l < 1 THEN 0 ELSE TwoPow(depth_l - 1)
             depth_r == get_depth(leaf_number_sub_tree - next_left_leaf_number_subtree)
             diff_r == IF depth_r < 1 THEN 0 ELSE TwoPow(depth_r - 1)
             left_part ==
                 IF left # <<>>
                 THEN generate_proof_recursive(store, left_node, left,
                                               max_left_tree_leaf_number - diff_l,
                                               next_left_leaf_number_subtree)
                 ELSE <<Node(left_node.hash, left_node.difficulty, FALSE)>>
             right_part ==
                 IF right # <<>>
                 THEN generate_proof_recursive(store, right_node, right,
                                               max_left_tree_leaf_number + diff_r,
                                               leaf_number_sub_tree - next_left_leaf_number_subtree)
                 ELSE <<Node(right_node.hash, right_node.difficulty, TRUE)>>
         IN  left_part \o right_part

\* Proof::generate_proof. With one leaf, depth - 1 underflows: a build with
\* overflow checks panics, one without computes 2u64.pow(u32::MAX) = 0.
generate_proof(store, leaf_nb, block_numbers, overflow_checks) ==
    LET sorted == sort_dedup(block_numbers)
        current_node == get_root_elem(store)
        depth == get_depth(leaf_nb)
    IN  IF depth = 0 /\ overflow_checks THEN Panic
        ELSE LET max_left == IF depth = 0 THEN 0 ELSE TwoPow(depth - 1)
                 elems == generate_proof_recursive(store, current_node, sorted,
                                                   max_left, leaf_nb)
             IN  Return(Proof(get_root_hash(store), get_root_difficulty(store), leaf_nb,
                              Append(elems, Root(current_node.hash, current_node.difficulty,
                                                 leaf_nb))))

\* ------------------------------------------------------------ verify_proof
NoIndex == 0 - 1

\* an entry of the verifier's stack `nodes`: (node, index, leaf_number);
\* index NoIndex stands for None (then leaf_nb is None too)
StackNode(hash, difficulty, index, leaf_nb) ==
    [hash |-> hash, difficulty |-> difficulty, index |-> index, leaf_nb |-> leaf_nb]

\* proof_blocks.sort(); proof_blocks.dedup(); proof_blocks.reverse()
\* ProofBlock orders and compares by number only: the stable sort keeps equal
\* numbers in the given order and dedup keeps the first of each run
RECURSIVE sort_dedup_reverse(_)
sort_dedup_reverse(proof_blocks) ==
    IF proof_blocks = <<>> THEN <<>>
    ELSE LET m == CHOOSE x \in {proof_blocks[i].number : i \in 1..Len(proof_blocks)} :
                      \A i \in 1..Len(proof_blocks) : x <= proof_blocks[i].number
             first == CHOOSE i \in 1..Len(proof_blocks) :
                          /\ proof_blocks[i].number = m
                          /\ \A j \in 1..(i - 1) : proof_blocks[j].number # m
         IN  Append(sort_dedup_reverse(SelectSeq(proof_blocks, LAMBDA b : b.number # m)),
                    proof_blocks[first])

RECURSIVE get_root(_)
\* fold the stack from the back into one node (hash, difficulty)
get_root(nodes) ==
    IF Len(nodes) <= 1 THEN MmrElem(nodes[1].hash, nodes[1].difficulty)
    ELSE LET n == Len(nodes)
             c == combine(nodes[n - 1], nodes[n])
         IN  get_root(Append(SubSeq(nodes, 1, n - 2),
                             StackNode(c.hash, c.difficulty, NoIndex, NoIndex)))

\* (left > middle) || (right <= middle), middle = (aggr_weight * root.1 as f64).ceil();
\* every comparison with a NaN middle is false
weight_check_fails(aggr_weight, root_difficulty, left_difficulty, child_difficulty) ==
    LET product == F64MulNat(aggr_weight, root_difficulty)
    IN  IF product.kind = "nan" THEN FALSE
        ELSE LET middle == F64Ceil(product)
             IN  left_difficulty > middle \/ left_difficulty + child_difficulty <= middle

RECURSIVE collapse_right_first(_, _)
\* the inner loop joining the top entry before the one below it
collapse_right_first(nodes, proof_is_empty) ==
    IF ~(Len(nodes) > 1) THEN nodes
    ELSE LET n == Len(nodes)
             node2 == nodes[n]
             node1 == nodes[n - 1]
         IN  IF node2.index = NoIndex \/ (node2.index % 2 # 1 /\ ~proof_is_empty)
             THEN nodes
             ELSE LET c == combine(node2, node1)
                  IN  collapse_right_first(
                          Append(SubSeq(nodes, 1, n - 2),
                                 StackNode(c.hash, c.difficulty,
                                           node2.index \div 2, node2.leaf_nb \div 2)),
                          proof_is_empty)

RECURSIVE collapse(_, _)
\* the inner while loop: join the two top entries while the top one has an odd
\* index, or any index once the proof is used up
collapse(nodes, proof_is_empty) ==
    IF ~(Len(nodes) > 1) THEN nodes
    ELSE LET n == Len(nodes)
             node2 == nodes[n]
             node1 == nodes[n - 1]
         IN  IF node2.index = NoIndex \/ (node2.index % 2 # 1 /\ ~proof_is_empty)
             THEN nodes
             ELSE LET c == combine(node1, node2)
                  IN  collapse(Append(SubSeq(nodes, 1, n - 2),
                                      StackNode(c.hash, c.difficulty,
                                                node2.index \div 2, node2.leaf_nb \div 2)),
                               proof_is_empty)

\* what verify_proof ends with: Ok, Err(err) or a panic; final is the stack of
\* nodes it ended with and elem the proof elements left (self.elem afterwards)
Verdict(res, err, final, elem) ==
    [res |-> res, err |-> err, final |-> final, elem |-> elem]

Continue(proof, proof_blocks, nodes) ==
    [res |-> "Continue", proof |-> proof, proof_blocks |-> proof_blocks, nodes |-> nodes]

Abort(res, err, proof, nodes) ==
    [res |-> res, err |-> err, proof |-> proof, proof_blocks |-> <<>>, nodes |-> nodes]

PopBack(seq) == SubSeq(seq, 1, Len(seq) - 1)
Back(seq) == seq[Len(seq)]

\* the ProofElem::Child arm, after the element was popped from the front
verify_child(child, proof, proof_blocks, nodes, root, leaf_nb, overflow_checks) ==
    IF proof_blocks = <<>> THEN Abort("Panic", "proof_blocks.pop().unwrap()", proof, nodes)
    ELSE
    LET proof_block == Back(proof_blocks)
        blocks1 == PopBack(proof_blocks)
        number == proof_block.number
        weight_wrong ==
            /\ nodes # <<>>
            /\ proof_block.aggr_weight.some
            /\ weight_check_fails(proof_block.aggr_weight.w, root.difficulty,
                                  get_root(nodes).difficulty, child.difficulty)
    IN  IF weight_wrong
        THEN Abort("Err", "aggregated difficulty is not correct", proof, nodes)
        ELSE IF number % 2 = 0 /\ leaf_nb = 0 /\ overflow_checks
        THEN Abort("Panic", "leaf_number - 1", proof, nodes)
        ELSE IF number % 2 = 0 /\ number # leaf_nb - 1
        THEN IF proof = <<>>
             THEN Abort("Panic", "proof.pop_front().unwrap()", proof, nodes)
             ELSE LET right_node == Head(proof)
                      proof1 == Tail(proof)
                  IN  IF right_node.type = "Root"
                      THEN Abort("Err", "Expected ???", proof1, nodes)
                      ELSE IF right_node.type = "Child" /\ blocks1 = <<>>
                      THEN Abort("Panic", "proof_blocks.pop().unwrap()", proof1, nodes)
                      ELSE LET c == combine(child, right_node)
                               blocks2 == IF right_node.type = "Child"
                                          THEN PopBack(blocks1) ELSE blocks1
                           IN  Continue(proof1, blocks2,
                                        Append(nodes, StackNode(c.hash, c.difficulty,
                                                                number \div 2, leaf_nb \div 2)))
        ELSE IF nodes = <<>>
        THEN Abort("Panic", "nodes.pop_back().unwrap()", proof, nodes)
        ELSE LET left_node == Back(nodes)
                 c == combine(left_node, child)
             IN  Continue(proof, blocks1,
                          Append(PopBack(nodes), StackNode(c.hash, c.difficulty,
                                                           number \div 2, leaf_nb \div 2)))

\* the ProofElem::Node arm
verify_node(node, proof, proof_blocks, nodes) ==
    IF node.dir
    THEN IF nodes = <<>>
         THEN Abort("Panic", "nodes.pop_back().unwrap()", proof, nodes)
         ELSE LET left_node == Back(nodes)
                  c == combine(left_node, node)
              IN  IF left_node.index = NoIndex
                  THEN Abort("Panic", "left_index.unwrap()", proof, PopBack(nodes))
                  ELSE Continue(proof, proof_blocks,
                                Append(PopBack(nodes),
                                       StackNode(c.hash, c.difficulty,
                                                 left_node.index \div 2,
                                                 left_node.leaf_nb \div 2)))
    ELSE Continue(proof, proof_blocks,
                  Append(nodes, StackNode(node.hash, node.difficulty, NoIndex, NoIndex)))

\* the match on nodes.pop_back() after the loop
verify_final(nodes, root) ==
    IF nodes = <<>> THEN Verdict("Err", "Expected ??", nodes, <<>>)
    ELSE LET v == Back(nodes)
         IN  IF v.hash # root.hash
             THEN Verdict("Err", "Calculated root node hash is not correct", nodes, <<>>)
             ELSE IF v.difficulty # root.difficulty
             THEN Verdict("Err", "Calculated root difficulty is not correct", nodes, <<>>)
             ELSE Verdict("Ok", "", nodes, <<>>)

RECURSIVE verify_loop(_, _, _, _, _, _)
\* while !proof.is_empty()
verify_loop(proof, proof_blocks, nodes, root, leaf_nb, overflow_checks) ==
    IF proof = <<>> THEN verify_final(nodes, root)
    ELSE LET proof_elem == Head(proof)
             rest == Tail(proof)
             step == IF proof_elem.type = "Child"
                     THEN verify_child(proof_elem, rest, proof_blocks, nodes, root,
                                       leaf_nb, overflow_checks)
                     ELSE IF proof_elem.type = "Node"
                     THEN verify_node(proof_elem, rest, proof_blocks, nodes)
                     ELSE Continue(rest, proof_blocks, nodes)
         IN  IF step.res # "Continue"
             THEN Verdict(step.res, step.err, step.nodes, step.proof)
             ELSE verify_loop(step.proof, step.proof_blocks,
                              collapse(step.nodes, step.proof = <<>>),
                              root, leaf_nb, overflow_checks)

\* Proof::verify_proof(&mut self, proof_blocks) on the element sequence self.elem
verify_proof(elem, proof_blocks, overflow_checks) ==
    LET blocks == sort_dedup_reverse(proof_blocks)
    IN  IF elem = <<>> THEN Verdict("Err", "Empty proof", <<>>, <<>>)
        ELSE IF Back(elem).type # "Root"
        THEN Verdict("Err", "Got proof element, which is not the expected root",
                     <<>>, PopBack(elem))
        ELSE LET root == Back(elem)
                 proof == PopBack(elem)
             IN  IF Len(proof) = 1
                 THEN \* edge case: if only one element proof
                      IF proof[1].type = "Child" /\ proof[1].hash = root.hash
                      THEN Verdict("Ok", "",
                                   <<StackNode(proof[1].hash, proof[1].difficulty,
                                               NoIndex, NoIndex)>>, <<>>)
                      ELSE Verdict("Err", "Single element in proof is not correct",
                                   <<>>, <<>>)
                 ELSE verify_loop(proof, blocks, <<>>, root, root.leaf_number,
                                  overflow_checks)

\* ------------------------------------------------- weights and sampling
Err(e) == [kind |-> "Err", value |-> e]

\* get_left_difficulty(leaf_number) as f64 / get_root_difficulty() as f64
get_difficulty_relation(store, tree_leaf_number, leaf_nb) ==
    LET left == get_left_difficulty(store, tree_leaf_number, leaf_nb)
    IN  IF left.kind # "Return" THEN left
        ELSE Return(F64DivNat(left.value, get_root_difficulty(store)))

\* the descent on (root_weight as f64 * weight) as u128
get_child_by_aggr_weight(store, tree_leaf_number, weight) ==
    LET root_weight == get_root_difficulty(store)
        weight_disc == F64AsU128(F64MulNat(weight, root_weight))
    IN  get_child_by_aggr_weight_disc(store, tree_leaf_number, weight_disc)

\* ------------------------------------------- mmr::MerkleTree, the tree of boxes
\* mmr::MmrElem: children is None (<<>>) or Some((left, right))
NoChildren == <<>>

PointerElem(hash, difficulty, children) ==
    [hash |-> hash, difficulty |-> difficulty, children |-> children]

\* the biggest 2^k smaller than leaf_nb
get_left_subtree_number(leaf_nb) ==
    IF is_power_of_two(leaf_nb) THEN leaf_nb \div 2
    ELSE next_power_of_two(leaf_nb) \div 2

\* a full tree gets a new root over (elem, new_leaf); any other tree gets the
\* leaf appended to its right child (children.expect never meets None there:
\* a tree whose leaf number is not a power of two has at least three leaves)
RECURSIVE append_recursive(_, _, _)
append_recursive(tree_elem, new_leaf, leaf_nb) ==
    IF is_power_of_two(leaf_nb)
    THEN PointerElem(hash_children(tree_elem, new_leaf),
                     tree_elem.difficulty + new_leaf.difficulty,
                     <<tree_elem, new_leaf>>)
    ELSE LET child0 == tree_elem.children[1]
             value == TwoPow(floor_log2(leaf_nb))
             child1 == append_recursive(tree_elem.children[2], new_leaf, leaf_nb - value)
         IN  PointerElem(hash_children(child0, child1),
                         child0.difficulty + child1.difficulty,
                         <<child0, child1>>)

mmr_new(hash, difficulty) ==
    [leaf_number |-> 1, elem |-> PointerElem(hash, difficulty, NoChildren)]

mmr_append_leaf(tree, hash, difficulty) ==
    [leaf_number |-> tree.leaf_number + 1,
     elem |-> append_recursive(tree.elem, PointerElem(hash, difficulty, NoChildren),
                               tree.leaf_number)]

\* if depth < 1 { 0 } else { 2u64.pow(depth - 1) }
half_of_depth(depth) == IF depth < 1 THEN 0 ELSE TwoPow(depth - 1)

\* max_left_tree_leaf_number is carried along and never read: only its
\* subtraction can end the call, when the build checks overflow (a build that
\* does not check wraps it by 2^64, which no later step looks at)
RECURSIVE traverse_tree_weight(_, _, _, _, _, _, _)
traverse_tree_weight(curr_elem, target_weight, curr_weight, leaf_number_sub_tree, max_left_tree_leaf_number, aggr_leaf_number, overflow_checks) ==
    IF curr_elem.children = NoChildren THEN Return(aggr_leaf_number)
    ELSE LET left == curr_elem.children[1]
             next_left_leaf_number_subtree == get_left_subtree_number(leaf_number_sub_tree)
         IN  IF target_weight <= curr_weight + left.difficulty
             THEN LET diff == half_of_depth(get_depth(next_left_leaf_number_subtree))
                  IN  IF max_left_tree_leaf_number < diff /\ overflow_checks THEN Panic
                      ELSE traverse_tree_weight(left, target_weight, curr_weight,
                               next_left_leaf_number_subtree,
                               max_left_tree_leaf_number - diff,
                               aggr_leaf_number, overflow_checks)
             ELSE LET diff == half_of_depth(get_depth(leaf_number_sub_tree - next_left_leaf_number_subtree))
                  IN  traverse_tree_weight(curr_elem.children[2], target_weight,
                          curr_weight + left.difficulty,
                          leaf_number_sub_tree - next_left_leaf_number_subtree,
                          max_left_tree_leaf_number + diff,
                          aggr_leaf_number + next_left_leaf_number_subtree, overflow_checks)

\* starting_depth is passed down unchanged and never read
RECURSIVE traverse_tree_left(_, _, _, _, _, _)
traverse_tree_left(curr_node, max_left_tree_leaf_number, leaf_number_sub_tree, target_leaf_number, aggr_weight, overflow_checks) ==
    IF curr_node.children = NoChildren THEN Return(aggr_weight)
    ELSE LET next_left_leaf_number_subtree == get_left_subtree_number(leaf_number_sub_tree)
         IN  IF target_leaf_number < next_left_leaf_number_subtree
             THEN LET diff == half_of_depth(get_depth(next_left_leaf_number_subtree))
                  IN  IF max_left_tree_leaf_number < diff /\ overflow_checks THEN Panic
                      ELSE traverse_tree_left(curr_node.children[1],
                               max_left_tree_leaf_number - diff,
                               next_left_leaf_number_subtree,
                               target_leaf_number, aggr_weight, overflow_checks)
             ELSE LET diff == half_of_depth(get_depth(leaf_number_sub_tree - next_left_leaf_number_subtree))
                  IN  traverse_tree_left(curr_node.children[2],
                          max_left_tree_leaf_number + diff,
                          leaf_number_sub_tree - next_left_leaf_number_subtree,
                          target_leaf_number - next_left_leaf_number_subtree,
                          aggr_weight + curr_node.children[1].difficulty, overflow_checks)

\* 2u64.pow(depth - 1): depth is a u32 and 0 for a tree of one leaf, so the
\* subtraction ends the call when the build checks overflow, and wraps to
\* 2^32 - 1 otherwise, where 2u64.pow wraps to 0
root_half_of_depth(depth, overflow_checks) ==
    IF depth >= 1 THEN Return(TwoPow(depth - 1))
    ELSE IF overflow_checks THEN Panic
    ELSE Return(0)

mmr_get_left_difficulty(tree, leaf_nb, overflow_checks) ==
    LET max_left == root_half_of_depth(get_depth(tree.leaf_number), overflow_checks)
    IN  IF max_left.kind = "Panic" THEN Panic
        ELSE traverse_tree_left(tree.elem, max_left.value, tree.leaf_number,
                                leaf_nb, 0, overflow_checks)

mmr_get_child_by_aggr_weight(tree, weight, overflow_checks) ==
    LET root_weight == tree.elem.difficulty
        weight_disc == F64AsU128(F64MulNat(weight, root_weight))
        max_left == root_half_of_depth(get_depth(tree.leaf_number), overflow_checks)
    IN  IF max_left.kind = "Panic" THEN Panic
        ELSE traverse_tree_weight(tree.elem, weight_disc, 0, tree.leaf_number,
                                  max_left.value, 0, overflow_checks)

EpochLength == 30000
MaxExtraBlocks == 10

RECURSIVE extra_blocks_loop_from_first_epoch(_, _, _)
extra_blocks_loop_from_first_epoch(extra_blocks, current_block, added) ==
    IF current_block >= EpochLength /\ added < MaxExtraBlocks
    THEN extra_blocks_loop_from_first_epoch(Append(extra_blocks, current_block),
                                            current_block - EpochLength, added + 1)
    ELSE extra_blocks

RECURSIVE extra_blocks_loop(_, _, _)
\* while current_block > 30000 && added < 10
extra_blocks_loop(extra_blocks, current_block, added) ==
    IF current_block > EpochLength /\ added < MaxExtraBlocks
    THEN extra_blocks_loop(Append(extra_blocks, current_block),
                           current_block - EpochLength, added + 1)
    ELSE extra_blocks

\* the epoch anchors of a chain of root_leaf_number >= 1 leaves
extra_blocks_of(root_leaf_number) ==
    extra_blocks_loop(<<>>, ((root_leaf_number - 1) \div EpochLength) * EpochLength, 0)

RECURSIVE map_blocks(_, _, _, _)
\* blocks.iter().map(..): an anchor, met in ascending order, gets no weight; every
\* other block takes the next sampled weight
map_blocks(block_numbers, extra_blocks, weights_iter, out) ==
    IF block_numbers = <<>> THEN Return(out)
    ELSE LET number == Head(block_numbers)
         IN  IF extra_blocks # <<>> /\ number = Back(extra_blocks)
             THEN map_blocks(Tail(block_numbers), PopBack(extra_blocks), weights_iter,
                             Append(out, ProofBlock(number, None)))
             ELSE IF weights_iter = <<>> THEN Panic
             ELSE map_blocks(Tail(block_numbers), extra_blocks, Tail(weights_iter),
                             Append(out, ProofBlock(number, Some(Head(weights_iter)))))

\* NonInteractiveProofVariableDifficulty::verify_required_blocks. The float
\* formulas (vd_calculate_m, the hash-seeded cdf samples) are taken as given:
\* sampled is the sorted list of the required_queries weights they produce.
\* blocks.len() - extra_blocks.len() is a usize subtraction: below zero it
\* panics with overflow checks and otherwise wraps to 2^64 - k, which is kept
\* here as the negative difference (required_queries, at least 0, never equals it).
verify_required_blocks(block_numbers, sampled, root_leaf_number, overflow_checks) ==
    LET required_queries == Len(sampled)
        extra_blocks == extra_blocks_of(root_leaf_number)
    IN  IF Len(block_numbers) < Len(extra_blocks) /\ overflow_checks THEN Panic
        ELSE IF required_queries # Len(block_numbers) - Len(extra_blocks)
        THEN Err("false number of blocks provided")
        ELSE map_blocks(block_numbers, extra_blocks, sampled, <<>>)

RECURSIVE create_extra_blocks_loop(_, _, _, _)
\* create_new_proof: while current_block > 30000 && added < 10, pushing the
\* anchor to blocks and to extra_blocks
create_extra_blocks_loop(blocks, extra_blocks, current_block, added) ==
    IF current_block > EpochLength /\ added < MaxExtraBlocks
    THEN create_extra_blocks_loop(Append(blocks, current_block),
                                  Append(extra_blocks, current_block),
                                  current_block - EpochLength, added + 1)
    ELSE [blocks |-> blocks, extra_blocks |-> extra_blocks]

\* blocks and extra_blocks of create_new_proof on a tree of tree_leaf_number >= 1
\* leaves that sampled the blocks queried
create_extra_blocks(queried, tree_leaf_number) ==
    create_extra_blocks_loop(queried, <<>>,
                             ((tree_leaf_number - 1) \div EpochLength) * EpochLength, 0)

\* NonInteractiveProofVariableDifficulty::create_new_proof: (proof, blocks_dup,
\* extra_blocks), with sampled as in verify_required_blocks
create_new_proof(store, tree_leaf_number, sampled, overflow_checks) ==
    LET queried == [i \in 1..Len(sampled) |->
                        get_child_by_aggr_weight(store, tree_leaf_number, sampled[i])]
        with_extra == create_extra_blocks(queried, tree_leaf_number)
        all_blocks == with_extra.blocks
        blocks_dup == sort(all_blocks)
        generated == generate_proof(store, tree_leaf_number, all_blocks, overflow_checks)
    IN  IF generated.kind # "Return" THEN generated
        ELSE Return([proof |-> generated.value, blocks |-> blocks_dup,
                     extra_blocks |-> with_extra.extra_blocks])

\* ------------------------------------------------------- the MMR file
\* bounds of the trees kept in a file
MaxStoreLeaves == 4
StoreDifficulties == {0, 1}
\* a file is sealed and loaded again at most MaxCycles times
MaxCycles == 2

\* every element in the datastore is 48 bytes; the file starts with a header of
\* the same size: 32 bytes of hash, the leaf number (8 bytes), 8 bytes unused
SlotBytes == 48
FileHeader(seal, leaf_nb, pad) == [seal |-> seal, leaf_number |-> leaf_nb, pad |-> pad]
\* f.set_len(48): a header of zero bytes
NoSeal == <<>>
NoFile == <<>>

\* Keccak::new_sha3_256 over the file from byte 32 to its end
file_hash(f) == <<"sha3_256", f[1].leaf_number, f[1].pad, Tail(f)>>

\* impl Datastore for FileBasedMerkleTree, f the file's slots
file_write_elem(f, elem) == Append(f, MmrElem(elem.hash, elem.difficulty))

file_new(hash, difficulty) ==
    file_write_elem(<<FileHeader(NoSeal, 0, 0)>>, MmrElem(hash, difficulty))

file_get_elem_by_position(f, byte_position) ==
    LET position == byte_position + SlotBytes
        slot == f[(position \div SlotBytes) + 1]
    IN  [hash |-> slot.hash, difficulty |-> slot.difficulty,
         position |-> (position - SlotBytes) \div SlotBytes]

file_get_elem(f, node_number) == file_get_elem_by_position(f, node_number * SlotBytes)

file_remove_last_elem_keeps_length(f) == f

file_remove_last_elem(f) == SubSeq(f, 1, Len(f) - 1)

file_get_storage_size(f) == (Len(f) * SlotBytes) - SlotBytes

file_get_len(f) == file_get_storage_size(f) \div SlotBytes

file_get_root_elem(f) ==
    LET last_position == Len(f) * SlotBytes
    IN  file_get_elem_by_position(f, last_position - (2 * SlotBytes))

file_close_keeps_leaf_number(f, leaf_nb) ==
    [f EXCEPT ![1].seal = file_hash(f)]

\* FileBasedMerkleTree::close: write the leaf number, then the hash of the rest
file_close(f, leaf_nb) ==
    LET written == [f EXCEPT ![1].leaf_number = leaf_nb]
    IN  [written EXCEPT ![1].seal = file_hash(written)]

\* FileBasedMerkleTree::load_tree on the file f (NoFile: there is none)
file_load_tree(f) ==
    IF f = NoFile THEN Err("NotFound")
    ELSE IF file_hash(f) # f[1].seal THEN Panic
    ELSE Return([backend |-> "file", tree |-> <<>>, leaf_number |-> f[1].leaf_number])

\* InMemoryMerkleTree::close with f: Some(file): the leaf number, the whole tree
\* from byte 48 on, then the hash
memory_close(f, tree, leaf_nb) ==
    LET header == [f[1] EXCEPT !.leaf_number = leaf_nb]
        written == <<header>> \o tree \o SubSeq(f, Len(tree) + 2, Len(f))
    IN  [written EXCEPT ![1].seal = file_hash(written)]

\* InMemoryMerkleTree::load_tree: the tree is the file without its header
memory_load_tree(f) ==
    IF f = NoFile THEN Err("NotFound")
    ELSE IF file_hash(f) # f[1].seal THEN Panic
    ELSE Return([backend |-> "memory", tree |-> Tail(f), leaf_number |-> f[1].leaf_number])

\* MerkleTree::<FileBasedMerkleTree>::append_leaf
RECURSIVE file_append_collect(_, _, _, _)
file_append_collect(f, nodes_to_hash, curr_tree_number, aggr_node_number) ==
    IF is_power_of_two(curr_tree_number)
    THEN [store |-> f, nodes_to_hash |-> nodes_to_hash]
    ELSE LET f1 == file_remove_last_elem(f)
             left_tree_number == next_power_of_two(curr_tree_number) \div 2
             aggr1 == aggr_node_number + left_tree_number
             right_tree_number == curr_tree_number - left_tree_number
             left_root_node_number == get_node_number(aggr1) - 1
         IN  file_append_collect(f1,
                                 Append(nodes_to_hash, file_get_elem(f1, left_root_node_number)),
                                 right_tree_number,
                                 aggr1)

RECURSIVE file_append_hash(_, _)
file_append_hash(f, nodes_to_hash) ==
    IF Len(nodes_to_hash) <= 1 THEN f
    ELSE LET n == Len(nodes_to_hash)
             curr_right_elem == nodes_to_hash[n]
             curr_left_elem == nodes_to_hash[n - 1]
             new_intermediate_node == combine(curr_left_elem, curr_right_elem)
         IN  file_append_hash(file_write_elem(f, new_intermediate_node),
                              Append(SubSeq(nodes_to_hash, 1, n - 2), new_intermediate_node))

file_append_leaf(f, leaf_nb, hash, difficulty) ==
    LET new_elem == MmrElem(hash, difficulty)
        c == file_append_collect(f, <<>>, leaf_nb, 0)
        nodes1 == Append(c.nodes_to_hash, file_get_root_elem(c.store))
        f1 == file_write_elem(c.store, new_elem)
        nodes2 == Append(nodes1, new_elem)
    IN  file_append_hash(f1, nodes2)

\* the MerkleTree opened on the file: backend "file" keeps nothing but the file
\* handle, backend "memory" keeps the nodes in tree; backends lists the backends
\* the file was opened with so far
OpenTree(backend, tree, leaf_nb, backends) ==
    [backend |-> backend, tree |-> tree, leaf_number |-> leaf_nb, backends |-> backends]
NoTree == OpenTree("none", <<>>, 0, <<>>)
Backends == {"file", "memory"}

\* ------------------------------------------------------------ the wire
\* to_be_bytes of a number below 2^24 as width >= 1 bytes
to_be_bytes(nb, width) ==
    [i \in 1..width |->
        IF width - i >= 3 THEN 0
        ELSE IF width - i = 2 THEN (nb \div 65536) % 256
        ELSE IF width - i = 1 THEN (nb \div 256) % 256
        ELSE nb % 256]

\* the bytes of buf after its leading zero bytes
RECURSIVE StripZeros(_)
StripZeros(buf) ==
    IF buf = <<>> \/ Head(buf) # 0 THEN buf ELSE StripZeros(Tail(buf))

\* buf holds a number below 2^24, and that number
IsSmall(buf) == \A i \in 1..(Len(buf) - 3) : buf[i] = 0
SmallValue(buf) ==
    LET n == Len(buf)
        byte(i) == IF i >= 1 THEN buf[i] ELSE 0
    IN  (((byte(n - 2) * 256) + byte(n - 1)) * 256) + byte(n)

\* from_be_bytes: the number, or its base-256 digits when it is 2^24 or more
from_be_bytes(buf) == IF IsSmall(buf) THEN SmallValue(buf) ELSE StripZeros(buf)

\* array[from..to] of a slice
Slice(array, from, to) == SubSeq(array, from + 1, to)

\* the 32 bytes of a hash: every node of the store has its own, named here by
\* the place of the node in the store
as_bytes(store, hash) ==
    to_be_bytes(CHOOSE k \in 1..Len(store) : store[k].hash = hash, 32)

\* H256::from(buf): the hash with these bytes; bytes of no node are a hash of
\* no node
H256_from(store, buf) ==
    IF IsSmall(buf) /\ SmallValue(buf) \in 1..Len(store)
    THEN store[SmallValue(buf)].hash
    ELSE <<0 - 2, StripZeros(buf)>>

\* the bytes of one ProofElem
proof_elem_serialize(store, elem) ==
    IF elem.type = "Child"
    THEN <<0>> \o as_bytes(store, elem.hash) \o to_be_bytes(elem.difficulty, 16)
    ELSE IF elem.type = "Root"
    THEN <<1>> \o as_bytes(store, elem.hash) \o to_be_bytes(elem.difficulty, 16)
              \o to_be_bytes(elem.leaf_number, 8)
    ELSE (IF elem.dir THEN <<2>> ELSE <<3>>)
              \o as_bytes(store, elem.hash) \o to_be_bytes(elem.difficulty, 16)

RECURSIVE proof_elems_serialize(_, _)
proof_elems_serialize(store, elem) ==
    IF elem = <<>> THEN <<>>
    ELSE proof_elem_serialize(store, Head(elem)) \o proof_elems_serialize(store, Tail(elem))

\* Proof::serialize
proof_serialize(store, proof) ==
    as_bytes(store, proof.root_hash)
        \o to_be_bytes(proof.root_difficulty, 16)
        \o to_be_bytes(proof.leaf_number, 8)
        \o proof_elems_serialize(store, proof.elem)

\* the directions of the Node tags taken the other way round
proof_elem_deserialize_directions_swapped(store, proof, n) ==
    LET hash == H256_from(store, Slice(proof, n + 1, n + 33))
        difficulty == from_be_bytes(Slice(proof, n + 33, n + 49))
    IN  IF proof[n + 1] = 0 THEN Child(hash, difficulty)
        ELSE IF proof[n + 1] = 1
        THEN Root(hash, difficulty, from_be_bytes(Slice(proof, n + 49, n + 57)))
        ELSE Node(hash, difficulty, proof[n + 1] = 3)

\* the element that starts with the tag at proof[n] (n counts from 0), when all
\* of it is there
proof_elem_deserialize(store, proof, n) ==
    LET hash == H256_from(store, Slice(proof, n + 1, n + 33))
        difficulty == from_be_bytes(Slice(proof, n + 33, n + 49))
    IN  IF proof[n + 1] = 0 THEN Child(hash, difficulty)
        ELSE IF proof[n + 1] = 1
        THEN Root(hash, difficulty, from_be_bytes(Slice(proof, n + 49, n + 57)))
        ELSE Node(hash, difficulty, proof[n + 1] = 2)

RECURSIVE proof_elems_deserialize(_, _, _, _)
\* while n < proof.len(): parse all remaining elements
proof_elems_deserialize(store, proof, n, elem) ==
    IF ~(n < Len(proof)) THEN Return(elem)
    ELSE LET tag == proof[n + 1]
             size == IF tag = 1 THEN 56 ELSE 48
         IN  IF tag \notin {0, 1, 2, 3} THEN Err("Proof is invalid")
             ELSE IF (n + 1) + size > Len(proof) THEN Err("Proof is invalid")
             ELSE proof_elems_deserialize(store, proof, (n + 1) + size,
                                          Append(elem, proof_elem_deserialize(store, proof, n)))

\* Ok(Proof { root_hash, root_difficulty, leaf_number, elem }), unless the loop
\* over the elements returned an error
proof_with_elems(root_hash, root_difficulty, leaf_nb, elems) ==
    IF elems.kind # "Return" THEN elems
    ELSE Return(Proof(root_hash, root_difficulty, leaf_nb, elems.value))

\* Proof::deserialize
proof_deserialize(store, proof) ==
    IF Len(proof) < 64 THEN Err("Proof is invalid")
    ELSE LET root_hash == H256_from(store, Slice(proof, 0, 32))
             root_difficulty == from_be_bytes(Slice(proof, 32, 48))
             leaf_nb == from_be_bytes(Slice(proof, 48, 56))
         IN  proof_with_elems(root_hash, root_difficulty, leaf_nb,
                              proof_elems_deserialize(store, proof, 56, <<>>))

\* a serialized value: what it is (kind), its bytes, the value that was
\* serialized and what was done to the bytes since
Frame(kind, bytes, value, damage) ==
    [kind |-> kind, bytes |-> bytes, value |-> value, damage |-> damage]
NoFrame == Frame("none", <<>>, <<>>, "none")
Decoded(kind, ret) == [kind |-> kind, ret |-> ret]
NoDecoded == Decoded("none", Return(0))
Connection(read, written, closed) == [read |-> read, written |-> written, closed |-> closed]
NoConnection == Connection(<<>>, <<>>, FALSE)

\* ---------------------------------------------- requests and responses
\* the process is stopped by the allocator (handle_alloc_error)
AllocError == [kind |-> "Abort", value |-> 0]

\* result?: what is not Ok leaves the function with it, the value of Ok goes on
AndThen(result, F(_)) == IF result.kind # "Return" THEN result ELSE F(result.value)

\* a DeserializeArray read: the value and the position after it
Read(value, position) == Return([value |-> value, position |-> position])

read_u8(array, position) ==
    IF position + 1 > Len(array) THEN Err("Request is too short")
    ELSE Read(array[position + 1], position + 1)

read_u64(array, position) ==
    IF position + 8 > Len(array) THEN Err("Request is too short")
    ELSE Read(from_be_bytes(Slice(array, position, position + 8)), position + 8)

read_u128(array, position) ==
    IF position + 16 > Len(array) THEN Err("Request is too short")
    ELSE Read(from_be_bytes(Slice(array, position, position + 16)), position + 16)

RECURSIVE read_u64s(_, _, _, _)
\* count times byte_array.read_u64()?, one after the other
read_u64s(array, position, count, values) ==
    IF count = 0 THEN Read(values, position)
    ELSE AndThen(read_u64(array, position),
                 LAMBDA nb : read_u64s(array, nb.position, count - 1, Append(values, nb.value)))

\* 2^64 - 1 - the u64 in buf8, as bytes
Complement(buf8) == [i \in 1..Len(buf8) |-> 255 - buf8[i]]

\* position + the u64 of bytes buf8 and complement inverted, as a 64-bit usize:
\* whether the sum overflows, whether it is 2^24 or more without an overflow,
\* and the sum, wrapped when it overflows
UsizeSum(position, buf8, inverted) ==
    [overflows |-> IsSmall(inverted) /\ SmallValue(inverted) < position,
     huge |-> ~IsSmall(buf8) /\ ~(IsSmall(inverted) /\ SmallValue(inverted) < position),
     value |-> IF IsSmall(buf8) THEN position + SmallValue(buf8)
               ELSE (position - SmallValue(inverted)) - 1]

\* byte_array.position + header_length as usize
UsizeAdd(position, buf8) == UsizeSum(position, buf8, Complement(buf8))

\* the check position + length as usize > array.len() and the slice
\* array[position..position + length as usize], with the_end the sum
slice_checked(array, start, the_end, overflow_checks) ==
    IF the_end.overflows /\ overflow_checks THEN Panic
    ELSE IF the_end.huge THEN Err("Response is invalid")
    ELSE IF the_end.value > Len(array) THEN Err("Response is invalid")
    ELSE IF start > the_end.value THEN Panic
    ELSE Read(Slice(array, start, the_end.value), the_end.value)

\* the length prefix of SerItem for Header and for Proof: read_u64, the check
\* and the slice
read_prefixed(array, position, overflow_checks) ==
    AndThen(read_u64(array, position),
            LAMBDA length :
                slice_checked(array, length.position,
                              UsizeAdd(length.position, Slice(array, position, position + 8)),
                              overflow_checks))

\* bytes after their length as a u64
Prefixed(bytes) == to_be_bytes(Len(bytes), 8) \o bytes

\* common_types::header::Header, of which the model keeps the number
Header(number) == [number |-> number]
\* the first byte of an encoded header (an RLP list)
HeaderRlp == 249
\* header.encoded().into_inner()
header_encoded(header) == <<HeaderRlp, header.number % 256>>
\* EncHeader::new(bytes).decode()
header_decode(bytes) ==
    IF Len(bytes) = 2 /\ bytes[1] = HeaderRlp THEN Return(Header(bytes[2]))
    ELSE Err("Invalid response")

\* SerItem for Header
header_serialize(header) == Prefixed(header_encoded(header))

header_deserialize(array, position, overflow_checks) ==
    AndThen(read_prefixed(array, position, overflow_checks),
            LAMBDA enc_header :
                AndThen(header_decode(enc_header.value),
                        LAMBDA h : Read(h, enc_header.position)))

\* SerItem for Proof, write_proof
proof_item_serialize(store, proof) == Prefixed(proof_serialize(store, proof))

proof_item_deserialize(store, array, position, overflow_checks) ==
    AndThen(read_prefixed(array, position, overflow_checks),
            LAMBDA proof_bytes :
                AndThen(proof_deserialize(store, proof_bytes.value),
                        LAMBDA parsed : Read(parsed, proof_bytes.position)))

\* SerItem::deserialize of the element type T: "u64" or "Header"
item_deserialize(item, array, position, overflow_checks) ==
    IF item = "u64" THEN read_u64(array, position)
    ELSE header_deserialize(array, position, overflow_checks)

RECURSIVE items_serialize(_, _)
items_serialize(item, vec) ==
    IF vec = <<>> THEN <<>>
    ELSE (IF item = "u64" THEN to_be_bytes(Head(vec), 8) ELSE header_serialize(Head(vec)))
             \o items_serialize(item, Tail(vec))

\* write_vec
write_vec(item, vec) == to_be_bytes(Len(vec), 8) \o items_serialize(item, vec)

RECURSIVE read_items(_, _, _, _, _, _)
\* while curr_nb < vec_length { vec.push(T::deserialize(self)?) }
read_items(item, array, position, remaining, vec, overflow_checks) ==
    IF remaining = 0 THEN Read(vec, position)
    ELSE AndThen(item_deserialize(item, array, position, overflow_checks),
                 LAMBDA elem :
                     read_items(item, array, elem.position, remaining - 1,
                                Append(vec, elem.value), overflow_checks))

\* the bytes of an element of type T in memory are not fewer than eight, so a
\* count whose first byte is not below 16 is a capacity of more than
\* isize::MAX bytes
CapacityOverflows(buf8) == buf8[1] >= 16

\* Vec::with_capacity(vec_length as usize) and the loop of read_vec.
\* with_capacity panics on a capacity overflow; other counts of 2^24 and more
\* are an allocation that the allocator grants or not (alloc_ok), and the loop
\* that follows runs out of bytes before such a count
with_capacity(item, array, position, buf8, vec_length, overflow_checks, alloc_ok) ==
    IF CapacityOverflows(buf8) THEN Panic
    ELSE IF ~IsSmall(buf8) /\ ~alloc_ok THEN AllocError
    ELSE read_items(item, array, position,
                    IF IsSmall(buf8) THEN vec_length ELSE Len(array) + 1,
                    <<>>, overflow_checks)

\* read_vec
read_vec(item, array, position, overflow_checks, alloc_ok) ==
    AndThen(read_u64(array, position),
            LAMBDA vec_length :
                with_capacity(item, array, vec_length.position,
                              Slice(array, position, position + 8), vec_length.value,
                              overflow_checks, alloc_ok))

\* enum Request
Request(type, args) == [type |-> type, args |-> args]
RequestBlockHeader(nb) == Request("BlockHeader", <<nb>>)
RequestLatestBlockNumber == Request("LatestBlockNumber", <<>>)
RequestNonInteractiveProof(lambda, c, l) == Request("NonInteractiveProof", <<lambda, c, l>>)
RequestContinueNonInteractiveProof(lambda, c, l, last_block) ==
    Request("ContinueNonInteractiveProof", <<lambda, c, l, last_block>>)

\* the first byte of a request or of a response of this type
TypeByte(type) ==
    CASE type = "BlockHeader" -> 0
      [] type = "LatestBlockNumber" -> 1
      [] type = "NonInteractiveProof" -> 2
      [] type = "ContinueNonInteractiveProof" -> 3
      [] type = "Error" -> 4

\* the type of a request with this first byte, and the number of its u64 fields
RequestType(req_type) ==
    CASE req_type = 0 -> [name |-> "BlockHeader", fields |-> 1]
      [] req_type = 1 -> [name |-> "LatestBlockNumber", fields |-> 0]
      [] req_type = 2 -> [name |-> "NonInteractiveProof", fields |-> 3]
      [] req_type = 3 -> [name |-> "ContinueNonInteractiveProof", fields |-> 4]

RECURSIVE write_u64s(_)
write_u64s(args) ==
    IF args = <<>> THEN <<>> ELSE to_be_bytes(Head(args), 8) \o write_u64s(Tail(args))

\* Request::serialize
request_serialize(req) == <<TypeByte(req.type)>> \o write_u64s(req.args)

\* the fields of a request of the type with this first byte
request_fields(req, req_type) ==
    AndThen(read_u64s(req, 1, req_type.fields, <<>>),
            LAMBDA args : Return(Request(req_type.name, args.value)))

\* Request::deserialize
request_deserialize(req) ==
    AndThen(read_u8(req, 0),
            LAMBDA req_type :
                IF req_type.value \notin {0, 1, 2, 3} THEN Err("Invalid request")
                ELSE request_fields(req, RequestType(req_type.value)))

\* enum Response; a field that a type does not have is empty
Response(type, header, nb, omitted_blocks, headers, proof, l, right_difficulty, latest_blocks, err) ==
    [type |-> type, header |-> header, nb |-> nb, omitted_blocks |-> omitted_blocks,
     headers |-> headers, proof |-> proof, l |-> l, right_difficulty |-> right_difficulty,
     latest_blocks |-> latest_blocks, err |-> err]
ResponseBlockHeader(header) ==
    Response("BlockHeader", header, 0, <<>>, <<>>, NoProof, 0, 0, <<>>, <<>>)
ResponseLatestBlockNumber(nb) ==
    Response("LatestBlockNumber", Header(0), nb, <<>>, <<>>, NoProof, 0, 0, <<>>, <<>>)
ResponseNonInteractiveProof(headers, proof, l, right_difficulty, latest_blocks) ==
    Response("NonInteractiveProof", Header(0), 0, <<>>, headers, proof, l, right_difficulty,
             latest_blocks, <<>>)
ResponseContinueNonInteractiveProof(omitted_blocks, headers, proof, l, right_difficulty, latest_blocks) ==
    Response("ContinueNonInteractiveProof", Header(0), 0, omitted_blocks, headers, proof, l,
             right_difficulty, latest_blocks, <<>>)
\* a String is the sequence of its bytes
ResponseError(err) ==
    Response("Error", Header(0), 0, <<>>, <<>>, NoProof, 0, 0, <<>>, err)

RECURSIVE from_utf8_lossy(_)
\* String::from_utf8_lossy on ASCII and on single bytes that are not UTF-8,
\* which become U+FFFD
from_utf8_lossy(bytes) ==
    IF bytes = <<>> THEN <<>>
    ELSE (IF Head(bytes) < 128 THEN <<Head(bytes)>> ELSE <<239, 191, 189>>)
             \o from_utf8_lossy(Tail(bytes))

\* what the two proof responses write after their first vector or vectors:
\* write_proof, write_u64, write_u128, write_vec
proof_response_serialize(store, resp) ==
    proof_item_serialize(store, resp.proof)
        \o to_be_bytes(resp.l, 8) \o to_be_bytes(resp.right_difficulty, 16)
        \o write_vec("Header", resp.latest_blocks)

\* Response::serialize
response_serialize(store, resp) ==
    <<TypeByte(resp.type)>> \o
    (CASE resp.type = "BlockHeader" -> header_serialize(resp.header)
       [] resp.type = "LatestBlockNumber" -> to_be_bytes(resp.nb, 8)
       [] resp.type \in {"NonInteractiveProof", "ContinueNonInteractiveProof"} ->
              (IF resp.type = "ContinueNonInteractiveProof"
               THEN write_vec("u64", resp.omitted_blocks)
               ELSE <<>>)
                  \o write_vec("Header", resp.headers)
                  \o proof_response_serialize(store, resp)
       [] resp.type = "Error" -> resp.err)

\* the fields of the two proof responses after omitted_blocks (at position 1 and
\* empty in a NonInteractiveProof): read_vec()?, read_proof()?, read_u64()?,
\* read_u128()?, read_vec()?
proof_response_deserialize(store, resp, type, omitted_blocks, overflow_checks, alloc_ok) ==
    AndThen(read_vec("Header", resp, omitted_blocks.position, overflow_checks, alloc_ok),
     LAMBDA headers :
      AndThen(proof_item_deserialize(store, resp, headers.position, overflow_checks),
       LAMBDA proof :
        AndThen(read_u64(resp, proof.position),
         LAMBDA l :
          AndThen(read_u128(resp, l.position),
           LAMBDA right_difficulty :
            AndThen(read_vec("Header", resp, right_difficulty.position, overflow_checks,
                             alloc_ok),
             LAMBDA latest_headers :
              Return(Response(type, Header(0), 0, omitted_blocks.value, headers.value,
                              proof.value, l.value, right_difficulty.value,
                              latest_headers.value, <<>>)))))))

\* Response::deserialize
response_deserialize(store, resp, overflow_checks, alloc_ok) ==
    AndThen(read_u8(resp, 0),
     LAMBDA req_type :
        IF req_type.value = 0
        THEN AndThen(header_deserialize(resp, 1, overflow_checks),
                     LAMBDA header : Return(ResponseBlockHeader(header.value)))
        ELSE IF req_type.value = 1
        THEN AndThen(read_u64(resp, 1),
                     LAMBDA nb : Return(ResponseLatestBlockNumber(nb.value)))
        ELSE IF req_type.value \in {2, 3}
        THEN AndThen(IF req_type.value = 3
                     THEN read_vec("u64", resp, 1, overflow_checks, alloc_ok)
                     ELSE Read(<<>>, 1),
                     LAMBDA omitted_blocks :
                         proof_response_deserialize(
                             store, resp,
                             IF req_type.value = 3 THEN "ContinueNonInteractiveProof"
                             ELSE "NonInteractiveProof",
                             omitted_blocks, overflow_checks, alloc_ok))
        ELSE IF req_type.value = 4
        THEN Return(ResponseError(from_utf8_lossy(Slice(resp, 1, Len(resp)))))
        ELSE Err("Invalid response"))

\* ----------------------------------------------------- inputs of the calls
\* the requests: lists of at most max_len numbers of the leaves 0 .. n - 1
BlockLists(n, max_len) == UNION {[1..len -> 0..(n - 1)] : len \in 0..max_len}

\* a sampled weight: k / WeightDen as f64
Weight(k) == F64DivNat(k, WeightDen)

\* weights.sort_by(..): the sorted lists of min_len to max_len sampled weights
SortedSamples(min_len, max_len) ==
    {ks \in UNION {[1..len -> 0..(WeightDen - 1)] : len \in min_len..max_len} :
        \A i \in 1..(Len(ks) - 1) : ks[i] <= ks[i + 1]}

WeightChoices == {None} \cup {Some(Weight(k)) : k \in 0..(WeightDen - 1)}

\* elements that claim to be the root: a child with the root's hash and another
\* difficulty, and the root as a left node
ForgedElems(root) ==
    {Child(root.hash, root.difficulty + 1), Node(root.hash, root.difficulty, FALSE)}

\* leaf numbers a received proof may carry, with 0, 1 and 2 epoch anchors
RootLeafNumbers == {1, 2 * EpochLength + 1, 3 * EpochLength + 1}
ReceivedNumbers == {5, 2 * EpochLength, 3 * EpochLength}

NoVerified ==
    [origin |-> "none", pristine |-> FALSE, elem |-> <<>>, proof_blocks |-> <<>>,
     result |-> Verdict("none", "", <<>>, <<>>)]

\* ---------------------------------------------------------------- history
RECURSIVE SumDifficulty(_, _, _)
\* sum of the difficulties of the inserted leaves with index in [from, to)
SumDifficulty(ls, from, to) ==
    IF from >= to THEN 0 ELSE ls[from + 1].difficulty + SumDifficulty(ls, from + 1, to)

NoCall == [op |-> "none", arg |-> 0, ret |-> Return(0)]

\* ------------------------------------------------- properties of the MMR
\* left_prefix_difficulty(k) as the tree reports it, with the whole-chain prefix
\* k = leaf_number read from the root
LeftPrefix(k) ==
    IF k = leaf_number THEN get_root_difficulty(datastore)
    ELSE get_left_difficulty(datastore, leaf_number, k).value

\* C1: after MerkleTree::new and any sequence of append_leaf calls,
\* get_leaf_number() is the number of leaves inserted and get_root_difficulty()
\* is the sum of the difficulties of all inserted leaves.
C1_LeafNumberAndRootDifficulty ==
    /\ leaf_number = Len(leaves)
    /\ get_root_difficulty(datastore) = SumDifficulty(leaves, 0, Len(leaves))

C1_Witness ==
    /\ call.op = "append_leaf"
    /\ leaf_number = 4
    /\ \A i \in 1..4 : leaves[i].difficulty > 0
    /\ get_root_difficulty(datastore) >= 5

\* C6: for every k in [0, n], get_left_difficulty(k) returns the sum of the
\* difficulties of leaves [0, k), and the result is non-decreasing in k.
C6_LeftDifficultyIsPrefixSum ==
    \A k \in 0..leaf_number :
        LET r == get_left_difficulty(datastore, leaf_number, k)
        IN  /\ r = Return(SumDifficulty(leaves, 0, k))
            /\ r.value + SumDifficulty(leaves, k, leaf_number) = get_root_difficulty(datastore)
            /\ k > 0 => get_left_difficulty(datastore, leaf_number, k - 1).value <= r.value

\* get_left_difficulty(k) for a leaf index k < n: it returns, and returns the
\* prefix sum; only the whole-chain prefix k = n does not return
LeftDifficultyOfLeafIndex ==
    \A k \in 0..leaf_number :
        LET r == get_left_difficulty(datastore, leaf_number, k)
        IN  IF k < leaf_number THEN r = Return(SumDifficulty(leaves, 0, k))
            ELSE r.kind # "Return"

C8_LookupFindsInterval ==
    \A t \in 0..(get_root_difficulty(datastore) - 1) :
        LET i == get_child_by_aggr_weight_disc(datastore, leaf_number, t)
        IN  /\ i \in 0..(leaf_number - 1)
            /\ LeftPrefix(i) <= t
            /\ t < LeftPrefix(i + 1)

C8_Witness ==
    /\ leaf_number = 5
    /\ call.op = "get_child_by_aggr_weight_disc"
    /\ call.ret = Return(2)
    /\ leaves[2].difficulty = 0
    /\ LeftPrefix(2) < call.arg
    /\ call.arg < LeftPrefix(3)

\* ---------------------------------------------- properties of the proofs
\* the witness check as the specification states it, on the leaves that were
\* inserted: left_prefix <= ceil(aggr_weight * root_difficulty)
\*                        < left_prefix + difficulty of the leaf
WitnessHolds(number, aggr_weight, root_difficulty) ==
    LET product == F64MulNat(aggr_weight, root_difficulty)
        middle == F64Ceil(product)
        left_prefix == SumDifficulty(leaves, 0, number)
    IN  /\ product.kind # "nan"
        /\ left_prefix <= middle
        /\ middle < left_prefix + leaves[number + 1].difficulty

\* the blocks verify_proof matched with the Child elements, and the root it read
MatchedBlocks == sort_dedup_reverse(verified.proof_blocks)
VerifiedRoot == Back(verified.elem)

EveryWitnessHolds ==
    \A i \in 1..Len(MatchedBlocks) :
        MatchedBlocks[i].aggr_weight.some =>
            WitnessHolds(MatchedBlocks[i].number, MatchedBlocks[i].aggr_weight.w,
                         VerifiedRoot.difficulty)

\* C2: for every MMR built by append_leaf and every list of its leaf indices
\* (duplicates allowed), generate_proof followed by verify_proof with one
\* ProofBlock per requested index carrying aggr_weight =
\* get_left_difficulty(i) / root_difficulty returns Ok.
C2_ProofRoundTrip ==
    (verified.origin = "relation" /\ verified.pristine) => verified.result.res = "Ok"

\* the same for requests that name at least one block
RoundTripOfNonEmptyRequest ==
    (verified.origin = "relation" /\ verified.pristine /\ verified.proof_blocks # <<>>)
        => verified.result.res = "Ok"

\* C3: verify_proof returns Ok only if the element stream collapses to exactly
\* one node whose hash and difficulty both equal those of the Root terminator,
\* on every accepting path, the single-element short-circuit included.
C3_OkOnlyForTheRoot ==
    verified.result.res = "Ok" =>
        /\ Len(verified.result.final) = 1
        /\ verified.result.final[1].hash = VerifiedRoot.hash
        /\ verified.result.final[1].difficulty = VerifiedRoot.difficulty

\* the two halves of C3, each on its own accepting path
OkOnlyWithOneNodeLeft ==
    verified.result.res = "Ok" => Len(verified.result.final) = 1
OkOnlyWithRootDifficulty ==
    verified.result.res = "Ok" =>
        verified.result.final[Len(verified.result.final)].difficulty
            = VerifiedRoot.difficulty

\* C4: verify_proof validates the aggregate-weight witness of every Child whose
\* ProofBlock carries an aggr_weight: if the witness check is false for any such
\* Child, verify_proof returns an error instead of Ok.
C4_EveryWeightValidated ==
    (verified.pristine /\ verified.result.res = "Ok") => EveryWitnessHolds

\* C5: prover and verifier round a sampled weight alike: the leaf that
\* get_child_by_aggr_weight(w) selects passes the verifier's witness check for w,
\* and a proof made by create_new_proof and mapped by verify_required_blocks is
\* accepted by verify_proof.
SampledLeafPassesWitnessCheck ==
    \A k \in 0..(WeightDen - 1) :
        WitnessHolds(get_child_by_aggr_weight(datastore, leaf_number, Weight(k)),
                     Weight(k), get_root_difficulty(datastore))
\* (sampled_weights is not empty exactly when create_new_proof made the proof)
SampledProofAccepted ==
    (verified.origin = "required" /\ verified.pristine /\ sampled_weights # <<>>)
        => verified.result.res = "Ok"
C5_SameRoundingPolicy ==
    SampledLeafPassesWitnessCheck /\ SampledProofAccepted

\* C9: verify_proof returns a structured error and never aborts, for every
\* element sequence and every proof_blocks list.
C9_VerifyNeverAborts ==
    verified.result.res # "Panic"

\* C10: verify_required_blocks rejects with an error whenever the number of
\* query blocks (length of the supplied list minus the number of epoch anchors
\* computed from root_leaf_number) differs from the required query count; this
\* includes supplied lists shorter than the anchor count.
C10_WrongBlockCountRejected ==
    (/\ call.op = "verify_required_blocks"
     /\ Len(response_blocks) - Len(extra_blocks_of(response_proof.leaf_number))
            # Len(sampled_weights))
        => call.ret.kind = "Err"

\* the same for lists at least as long as the anchor count
WrongCountOfLongEnoughListRejected ==
    (/\ call.op = "verify_required_blocks"
     /\ Len(response_blocks) >= Len(extra_blocks_of(response_proof.leaf_number))
     /\ Len(response_blocks) - Len(extra_blocks_of(response_proof.leaf_number))
            # Len(sampled_weights))
        => call.ret.kind = "Err"

\* ---------------------------------------------------------------- actions
tree_vars == <<leaf_number, datastore, leaves, merkle_tree>>
proof_vars == <<response_proof, response_blocks, sampled_weights, blocks_with_weight,
                origin, pristine, verified>>
store_vars == <<disk, attached>>
wire_vars == <<frame, decoded, connection>>
server_vars == <<running, request_channel, response_channel, listener, block_header_thread>>

\* the listener thread: where it is, and what it wrote to the stream of every
\* connection it accepted
Listener(pc, written) == [pc |-> pc, written |-> written]

\* nonintproof.proof: None, or Some((blocks, proof, right_difficulty, extra_blocks, L))
Stored(some, blocks, proof, right_difficulty, extra_blocks) ==
    [some |-> some, blocks |-> blocks, proof |-> proof,
     right_difficulty |-> right_difficulty, extra_blocks |-> extra_blocks]
NoStored == Stored(FALSE, <<>>, NoProof, 0, <<>>)

\* BlockHeaderThread: where it is in run, headers.len(), whether nonintproof.mmr
\* is Some, nonintproof.proof and nonintproof.last_blocks
BlockHeaderThread(pc, headers, mmr, proof, last_blocks) ==
    [pc |-> pc, headers |-> headers, mmr |-> mmr, proof |-> proof,
     last_blocks |-> last_blocks]

\* main before the threads have done anything
InitServerState ==
    /\ running = TRUE
    /\ request_channel = <<>>
    /\ response_channel = <<>>
    /\ listener = Listener("incoming", <<>>)
    /\ block_header_thread = BlockHeaderThread("while", 0, FALSE, NoStored, <<>>)

\* MerkleTree::new(hash, difficulty, ..); nothing was proved or received yet
InitTree(difficulties) ==
    \E hash \in {BlockHash(0)}, difficulty \in difficulties :
        /\ leaf_number = 1
        /\ datastore = write_elem(<<>>, MmrElem(hash, difficulty))
        /\ leaves = <<MmrElem(hash, difficulty)>>
        /\ merkle_tree = mmr_new(hash, difficulty)
        /\ call = NoCall
        /\ response_proof = NoProof
        /\ response_blocks = <<>>
        /\ sampled_weights = <<>>
        /\ blocks_with_weight = <<>>
        /\ origin = "none"
        /\ pristine = FALSE
        /\ verified = NoVerified
        /\ frame = NoFrame
        /\ decoded = NoDecoded
        /\ connection = NoConnection
        /\ InitServerState

\* MerkleTree::<InMemoryMerkleTree>::new(hash, difficulty, None): no file
InitOf(difficulties) ==
    /\ InitTree(difficulties)
    /\ disk = NoFile
    /\ attached = NoTree

Init == InitOf(Difficulties)

\* append_leaf(hash, difficulty). Leaves are appended between the turns of the
\* prover (tests/fuzzy_tests.rs builds the tree, then proves): a proof and its
\* verification read the tree as it was when the proof was generated.
AppendLeafOf(difficulties, max_leaves) ==
    \E hash \in {BlockHash(leaf_number)}, difficulty \in difficulties :
        /\ leaf_number < max_leaves
        /\ response_proof = NoProof
        /\ datastore' = append_leaf(datastore, leaf_number, hash, difficulty)
        /\ leaf_number' = leaf_number + 1
        /\ leaves' = Append(leaves, MmrElem(hash, difficulty))
        /\ merkle_tree' = mmr_append_leaf(merkle_tree, hash, difficulty)
        /\ call' = [op |-> "append_leaf", arg |-> difficulty, ret |-> Return(0)]
        /\ UNCHANGED <<server_vars, wire_vars, proof_vars, store_vars>>

AppendLeaf == AppendLeafOf(Difficulties, MaxLeaves)

GetLeftDifficulty ==
    \E k \in 0..leaf_number :
        /\ call' = [op |-> "get_left_difficulty", arg |-> k,
                    ret |-> get_left_difficulty(datastore, leaf_number, k)]
        /\ UNCHANGED <<server_vars, wire_vars, tree_vars, proof_vars, store_vars>>

GetChildByAggrWeightDisc ==
    \E t \in 0..get_root_difficulty(datastore) :
        /\ call' = [op |-> "get_child_by_aggr_weight_disc", arg |-> t,
                    ret |-> Return(get_child_by_aggr_weight_disc(datastore, leaf_number, t))]
        /\ UNCHANGED <<server_vars, wire_vars, tree_vars, proof_vars, store_vars>>

Next ==
    \/ AppendLeaf
    \/ GetLeftDifficulty
    \/ GetChildByAggrWeightDisc

Spec == Init /\ [][Next]_vars

\* ------------------------------------------------- proving and verifying
InitProof == InitOf(ProofDifficulties)

AppendLeafProof == AppendLeafOf(ProofDifficulties, MaxProofLeaves)

\* Proof::generate_proof(&mut mmr, &mut block_numbers); the caller keeps its copy
\* of the requested numbers (tests/fuzzy_tests.rs, let blocks = ..)
GenerateProof ==
    \E block_numbers \in BlockLists(leaf_number, MaxQueries), overflow_checks \in BOOLEAN :
        LET generated == generate_proof(datastore, leaf_number, block_numbers,
                                        overflow_checks)
            returned == generated.kind = "Return"
        IN  /\ response_proof = NoProof
            /\ call' = [op |-> "generate_proof", arg |-> Len(block_numbers),
                        ret |-> IF returned THEN Return(0) ELSE Panic]
            /\ response_proof' = IF returned THEN generated.value ELSE NoProof
            /\ pristine' = returned
            /\ response_blocks' = block_numbers
            /\ sampled_weights' = <<>>
            /\ blocks_with_weight' = <<>>
            /\ origin' = "none"
            /\ verified' = NoVerified
            /\ UNCHANGED <<server_vars, wire_vars, tree_vars, store_vars>>

\* the prover's own witnesses: ProofBlock { number, aggr_weight:
\* Some(mmr.get_difficulty_relation(number)) } for every requested number, on the
\* tree the proof was generated from
GetDifficultyRelation ==
    /\ response_proof # NoProof
    /\ verified = NoVerified
    /\ response_proof.leaf_number = leaf_number
    /\ blocks_with_weight' =
           [i \in 1..Len(response_blocks) |->
                ProofBlock(response_blocks[i],
                           Some(get_difficulty_relation(datastore, leaf_number,
                                                        response_blocks[i]).value))]
    /\ origin' = "relation"
    /\ call' = [op |-> "get_difficulty_relation", arg |-> Len(response_blocks),
                ret |-> Return(0)]
    /\ UNCHANGED <<server_vars, wire_vars, tree_vars, store_vars, response_proof, response_blocks, sampled_weights,
                   pristine, verified>>

\* ProofBlock::new(number, aggr_weight) with weights of the caller's choosing
ForgeWeights ==
    /\ response_proof # NoProof
    /\ verified = NoVerified
    /\ \E chosen \in [1..Len(response_blocks) -> WeightChoices] :
           blocks_with_weight' =
               [i \in 1..Len(response_blocks) |-> ProofBlock(response_blocks[i], chosen[i])]
    /\ origin' = "forged"
    /\ UNCHANGED <<server_vars, wire_vars, tree_vars, store_vars, call, response_proof, response_blocks, sampled_weights,
                   pristine, verified>>

\* create_new_proof(&mut mmr, right_difficulty), for every list of at least one
\* sampled weight
CreateNewProof ==
    \E ks \in SortedSamples(1, MaxQueries), overflow_checks \in BOOLEAN :
        LET sampled == [i \in 1..Len(ks) |-> Weight(ks[i])]
            created == create_new_proof(datastore, leaf_number, sampled, overflow_checks)
            returned == created.kind = "Return"
        IN  /\ response_proof = NoProof
            /\ call' = [op |-> "create_new_proof", arg |-> Len(ks),
                        ret |-> IF returned THEN Return(0) ELSE Panic]
            /\ response_proof' = IF returned THEN created.value.proof ELSE NoProof
            /\ pristine' = returned
            /\ response_blocks' = IF returned THEN created.value.blocks ELSE <<>>
            /\ sampled_weights' = IF returned THEN sampled ELSE <<>>
            /\ blocks_with_weight' = <<>>
            /\ origin' = "none"
            /\ verified' = NoVerified
            /\ UNCHANGED <<server_vars, wire_vars, tree_vars, store_vars>>

\* verify_required_blocks(&blocks, proof.get_root_hash(), proof.get_root_difficulty(),
\* right_difficulty, proof.get_leaf_number())
VerifyRequiredBlocks ==
    /\ response_proof # NoProof
    /\ verified = NoVerified
    /\ \E overflow_checks \in BOOLEAN :
           LET required == verify_required_blocks(response_blocks, sampled_weights,
                                                  response_proof.leaf_number,
                                                  overflow_checks)
           IN  /\ call' = [op |-> "verify_required_blocks", arg |-> Len(response_blocks),
                           ret |-> IF required.kind = "Return" THEN Return(0)
                                   ELSE IF required.kind = "Panic" THEN Panic
                                   ELSE Err(0)]
               /\ blocks_with_weight' =
                      IF required.kind = "Return" THEN required.value ELSE <<>>
               /\ origin' = IF required.kind = "Return" THEN "required" ELSE "none"
    /\ UNCHANGED <<server_vars, wire_vars, tree_vars, store_vars, response_proof, response_blocks, sampled_weights,
                   pristine, verified>>

\* proof.verify_proof(blocks_with_weight): the element queue is drained in place
\* and the block list is moved into the call
VerifyProof ==
    /\ response_proof # NoProof
    /\ \E overflow_checks \in BOOLEAN :
           LET result == verify_proof(response_proof.elem, blocks_with_weight,
                                      overflow_checks)
           IN  /\ verified' = [origin |-> origin, pristine |-> pristine,
                               elem |-> response_proof.elem,
                               proof_blocks |-> blocks_with_weight,
                               result |-> result]
               /\ response_proof' = [response_proof EXCEPT !.elem = result.elem]
               /\ call' = [op |-> "verify_proof", arg |-> Len(blocks_with_weight),
                           ret |-> IF result.res = "Ok" THEN Return(0)
                                   ELSE IF result.res = "Panic" THEN Panic
                                   ELSE Err(0)]
    /\ pristine' = FALSE
    /\ blocks_with_weight' = <<>>
    /\ origin' = "none"
    /\ UNCHANGED <<server_vars, wire_vars, tree_vars, store_vars, response_blocks, sampled_weights>>

\* the end of a turn: the proof and what was made for it go out of scope
DropProof ==
    /\ response_proof # NoProof
    /\ response_proof' = NoProof
    /\ response_blocks' = <<>>
    /\ sampled_weights' = <<>>
    /\ blocks_with_weight' = <<>>
    /\ origin' = "none"
    /\ pristine' = FALSE
    /\ verified' = NoVerified
    /\ UNCHANGED <<server_vars, wire_vars, tree_vars, store_vars, call>>

NextProof ==
    \/ AppendLeafProof
    \/ DropProof
    \/ GenerateProof
    \/ GetDifficultyRelation
    \/ ForgeWeights
    \/ CreateNewProof
    \/ VerifyRequiredBlocks
    \/ VerifyProof

SpecProof == InitProof /\ [][NextProof]_vars

\* ------------------------------------- a proof altered before it is verified
InitVerify == InitOf(VerifyDifficulties)

AppendLeafVerify == AppendLeafOf(VerifyDifficulties, MaxVerifyLeaves)

\* the list of blocks the verifier expects, without weights
ExpectBlocks ==
    /\ response_proof # NoProof
    /\ verified = NoVerified
    /\ \E numbers \in BlockLists(response_proof.leaf_number, MaxQueries) :
           blocks_with_weight' = [i \in 1..Len(numbers) |-> ProofBlock(numbers[i], None)]
    /\ origin' = "expected"
    /\ UNCHANGED <<server_vars, wire_vars, tree_vars, store_vars, call, response_proof, response_blocks, sampled_weights,
                   pristine, verified>>

\* the sender changes one element of the generated proof: it leaves one out, or
\* puts in its place an element that claims the root's hash
TamperProof ==
    /\ pristine
    /\ \E k \in 1..Len(response_proof.elem) :
           \/ response_proof' =
                  [response_proof EXCEPT !.elem = RemoveAt(response_proof.elem, k)]
           \/ /\ k < Len(response_proof.elem)
              /\ \E forged \in ForgedElems(Back(response_proof.elem)) :
                     response_proof' = [response_proof EXCEPT !.elem[k] = forged]
    /\ pristine' = FALSE
    /\ UNCHANGED <<server_vars, wire_vars, tree_vars, store_vars, call, response_blocks, sampled_weights, blocks_with_weight,
                   origin, verified>>

NextVerify ==
    \/ AppendLeafVerify
    \/ DropProof
    \/ GenerateProof
    \/ ExpectBlocks
    \/ TamperProof
    \/ VerifyProof

SpecVerify == InitVerify /\ [][NextVerify]_vars

\* --------------------------------------------- the light client's block check
\* Response::NonInteractiveProof((blocks, proof, ..)) arrives: the block numbers
\* and the proof's leaf number are whatever the peer sent
ReceiveResponse ==
    \E root_leaf_number \in RootLeafNumbers,
       numbers \in UNION {[1..len -> ReceivedNumbers] : len \in 0..MaxBlocks},
       ks \in SortedSamples(0, MaxQueries) :
        /\ response_proof' = Proof(BlockHash(0), 1, root_leaf_number, <<>>)
        /\ response_blocks' = numbers
        /\ sampled_weights' = [i \in 1..Len(ks) |-> Weight(ks[i])]
        /\ blocks_with_weight' = <<>>
        /\ origin' = "none"
        /\ pristine' = FALSE
        /\ call' = [op |-> "Response::deserialize", arg |-> Len(numbers), ret |-> Return(0)]
        /\ verified' = NoVerified
        /\ UNCHANGED <<server_vars, wire_vars, tree_vars, store_vars>>

\* the light client keeps no tree of its own
InitBlocks == InitOf({1})

NextBlocks ==
    \/ ReceiveResponse
    \/ VerifyRequiredBlocks

SpecBlocks == InitBlocks /\ [][NextBlocks]_vars

\* ------------------------------------------------ a tree kept in a file
\* the nodes and the root of the tree opened on the file
AttachedNodes == IF attached.backend = "file" THEN Tail(disk) ELSE attached.tree
AttachedRoot ==
    IF attached.backend = "file" THEN file_get_root_elem(disk)
    ELSE get_root_elem(attached.tree)
FileIntact == disk # NoFile /\ file_hash(disk) = disk[1].seal

\* MerkleTree::<T>::new(hash, difficulty, Some(file_name)) next to the tree
\* without a file that is given the same leaves
InitStore ==
    /\ InitTree(StoreDifficulties)
    /\ \E backend \in Backends :
          /\ disk = IF backend = "file"
                    THEN file_new(leaves[1].hash, leaves[1].difficulty)
                    ELSE <<FileHeader(NoSeal, 0, 0)>>
          /\ attached = OpenTree(backend,
                                 IF backend = "file" THEN <<>>
                                 ELSE write_elem(<<>>, leaves[1]),
                                 1, <<backend>>)

\* append_leaf(hash, difficulty) on both trees
AppendLeafStore ==
    \E hash \in {BlockHash(leaf_number)}, difficulty \in StoreDifficulties :
        /\ leaf_number < MaxStoreLeaves
        /\ attached.backend # "none"
        /\ datastore' = append_leaf(datastore, leaf_number, hash, difficulty)
        /\ leaf_number' = leaf_number + 1
        /\ leaves' = Append(leaves, MmrElem(hash, difficulty))
        /\ merkle_tree' = mmr_append_leaf(merkle_tree, hash, difficulty)
        /\ disk' = IF attached.backend = "file"
                   THEN file_append_leaf(disk, attached.leaf_number, hash, difficulty)
                   ELSE disk
        /\ attached' = [attached EXCEPT
                            !.tree = IF attached.backend = "memory"
                                     THEN append_leaf(attached.tree, attached.leaf_number,
                                                      hash, difficulty)
                                     ELSE attached.tree,
                            !.leaf_number = attached.leaf_number + 1]
        /\ call' = [op |-> "append_leaf", arg |-> difficulty, ret |-> Return(0)]
        /\ UNCHANGED <<server_vars, wire_vars, proof_vars>>

\* impl Drop for MerkleTree: self.datastore.close(self.leaf_number)
DropTree ==
    /\ attached.backend # "none"
    /\ disk' = IF attached.backend = "file"
               THEN file_close(disk, attached.leaf_number)
               ELSE memory_close(disk, attached.tree, attached.leaf_number)
    /\ attached' = OpenTree("none", <<>>, 0, attached.backends)
    /\ call' = [op |-> "close", arg |-> attached.leaf_number, ret |-> Return(0)]
    /\ UNCHANGED <<server_vars, wire_vars, tree_vars, proof_vars>>

\* MerkleTree::<T>::load(file_name)
LoadTree ==
    \E backend \in Backends :
        LET loaded == IF backend = "file" THEN file_load_tree(disk)
                      ELSE memory_load_tree(disk)
        IN  /\ attached.backend = "none"
            /\ Len(attached.backends) <= MaxCycles
            /\ attached' = IF loaded.kind = "Return"
                           THEN OpenTree(backend, loaded.value.tree,
                                         loaded.value.leaf_number,
                                         Append(attached.backends, backend))
                           ELSE attached
            /\ call' = [op |-> "load_tree", arg |-> 0,
                        ret |-> IF loaded.kind = "Return" THEN Return(0) ELSE loaded]
            /\ UNCHANGED <<server_vars, wire_vars, tree_vars, proof_vars, disk>>

\* one byte of the sealed file changes behind the program's back: a byte of the
\* leaf number, of the unused part of the header, or of a node
TamperFile ==
    /\ attached.backend = "none"
    /\ FileIntact
    /\ \/ \E leaf_nb \in (1..MaxStoreLeaves) \ {disk[1].leaf_number} :
              disk' = [disk EXCEPT ![1].leaf_number = leaf_nb]
       \/ disk' = [disk EXCEPT ![1].pad = 1]
       \/ \E k \in 2..Len(disk) :
              \/ disk' = [disk EXCEPT ![k].hash = <<0 - 1>>]
              \/ disk' = [disk EXCEPT ![k].difficulty = disk[k].difficulty + 1]
    /\ call' = [op |-> "tamper", arg |-> 0, ret |-> Return(0)]
    /\ UNCHANGED <<server_vars, wire_vars, tree_vars, proof_vars, attached>>

NextStore ==
    \/ AppendLeafStore
    \/ DropTree
    \/ LoadTree
    \/ TamperFile

SpecStore == InitStore /\ [][NextStore]_vars

\* -------------------------------------------- properties of the MMR file
\* C11: for any sequence of (hash, difficulty), the tree built with
\* FileBasedMerkleTree has, after every append, the same root hash, root
\* difficulty and leaf count as the one built with InMemoryMerkleTree, and the
\* same node at every slot index.
C11_BackendsAgree ==
    attached.backend = "file" =>
        /\ attached.leaf_number = leaf_number
        /\ file_get_len(disk) = get_len(datastore)
        /\ \A node_number \in 0..(get_len(datastore) - 1) :
               file_get_elem(disk, node_number) = get_elem(datastore, node_number)
        /\ file_get_root_elem(disk).hash = get_root_hash(datastore)
        /\ file_get_root_elem(disk).difficulty = get_root_difficulty(datastore)

C11_Witness ==
    /\ attached.backends = <<"file">>
    /\ attached.backend = "file"
    /\ call.op = "append_leaf"
    /\ leaf_number = MaxStoreLeaves

\* C12: a sealed file loaded with either backend gives the leaf count, the
\* nodes and the root that were sealed; leaves appended after any number of
\* seal / load cycles, whatever the backends, give the leaf count and the root
\* of one uninterrupted sequence of appends.
C12_PersistenceRoundTrip ==
    /\ attached.backend # "none" =>
           /\ attached.leaf_number = leaf_number
           /\ AttachedNodes = datastore
           /\ AttachedRoot.hash = get_root_hash(datastore)
           /\ AttachedRoot.difficulty = get_root_difficulty(datastore)
    /\ (attached.backend = "none" /\ FileIntact) =>
           /\ file_load_tree(disk).value.leaf_number = leaf_number
           /\ memory_load_tree(disk).value.leaf_number = leaf_number
           /\ memory_load_tree(disk).value.tree = datastore
           /\ Tail(disk) = datastore

C12_Witness ==
    /\ Len(attached.backends) = MaxCycles + 1
    /\ attached.backends[2] # attached.backends[3]
    /\ attached.backend # "none"
    /\ call.op = "append_leaf"
    /\ leaf_number = MaxStoreLeaves

\* C13: loading a sealed file in which a byte of the sealed region was changed
\* returns an error to the caller, and no store is produced.
C13_TamperedFileRejected ==
    (call.op = "load_tree" /\ ~FileIntact) =>
        (call.ret.kind = "Err" /\ attached.backend = "none")

\* what the load of such a file does: it panics, and no store is produced
TamperedFilePanics ==
    (call.op = "load_tree" /\ ~FileIntact) =>
        (call.ret.kind = "Panic" /\ attached.backend = "none")

\* ------------------------------------------------- the root and the appends
\* an append_leaf step, and the difficulty it appended
AppendStep == leaf_number' = leaf_number + 1
AppendedDifficulty == leaves'[Len(leaves')].difficulty

ElemTypes(elem) == [i \in 1..Len(elem) |-> elem[i].type]
SingleLeafRequest ==
    /\ call.op = "generate_proof"
    /\ leaf_number = 1
    /\ response_blocks = <<0>>

\* C19: for an MMR with exactly one leaf, generate_proof for the request {0}
\* completes and yields the elements [Child, Root], and verify_proof on them
\* returns Ok.
C19_SingleLeafProof ==
    /\ SingleLeafRequest =>
           /\ call.ret.kind = "Return"
           /\ ElemTypes(response_proof.elem) = <<"Child", "Root">>
    /\ (verified.pristine /\ leaf_number = 1 /\ response_blocks = <<0>>) =>
           verified.result.res = "Ok"

\* whenever generate_proof does return on the single leaf, the rest holds
SingleLeafProofIfReturned ==
    /\ (SingleLeafRequest /\ call.ret.kind = "Return") =>
           ElemTypes(response_proof.elem) = <<"Child", "Root">>
    /\ (verified.pristine /\ leaf_number = 1 /\ response_blocks = <<0>>) =>
           verified.result.res = "Ok"

\* ------------------------------------------------------ the epoch anchors
\* leaf counts up to MaxEpochs epochs, at these places within an epoch
MaxEpochs == 30
EpochOffsets == {1, 2, EpochLength \div 2, EpochLength}
AnchorLeafNumbers == {(k * EpochLength) + j : k \in 0..MaxEpochs, j \in EpochOffsets}

\* the anchors of a chain of n leaves, as the prover (create_new_proof) and as
\* the light client (verify_required_blocks) compute them
ExtraBlocks ==
    \E n \in AnchorLeafNumbers :
        /\ call' = [op |-> "extra_blocks", arg |-> n,
                    ret |-> Return([created |-> create_extra_blocks(<<>>, n),
                                    required |-> extra_blocks_of(n)])]
        /\ UNCHANGED <<server_vars, wire_vars, tree_vars, proof_vars, store_vars>>

NextAnchors == ExtraBlocks

SpecAnchors == InitOf({1}) /\ [][NextAnchors]_vars

\* the epoch of the last leaf of a chain of n leaves, and the number of anchors
TopAnchor(n) == ((n - 1) \div EpochLength) * EpochLength
AnchorCount(n) ==
    LET epochs == (TopAnchor(n) \div EpochLength) - 1
    IN  IF epochs < 0 THEN 0 ELSE IF epochs > MaxExtraBlocks THEN MaxExtraBlocks ELSE epochs

MaxCodecLeaves == 3
CodecDifficulties == {1}
SERVER_LAMBDA == 50
SERVER_C == 50
SERVER_L == 100

\* the messages of the server, as the bytes of their text
\* "There does not exist a block yet"
NoBlockYet ==
    <<84, 104, 101, 114, 101, 32, 100, 111, 101, 115, 32, 110, 111, 116, 32, 101, 120,
      105, 115, 116, 32, 97, 32, 98, 108, 111, 99, 107, 32, 121, 101, 116>>
\* "There does not exist a non-interactive proof with this configuration"
NoSuchConfiguration ==
    <<84, 104, 101, 114, 101, 32, 100, 111, 101, 115, 32, 110, 111, 116, 32, 101, 120,
      105, 115, 116, 32, 97, 32, 110, 111, 110, 45, 105, 110, 116, 101, 114, 97, 99,
      116, 105, 118, 101, 32, 112, 114, 111, 111, 102, 32, 119, 105, 116, 104, 32, 116,
      104, 105, 115, 32, 99, 111, 110, 102, 105, 103, 117, 114, 97, 116, 105, 111, 110>>
\* "There does not exist a non-interactive proof yet"
NoProofYet ==
    <<84, 104, 101, 114, 101, 32, 100, 111, 101, 115, 32, 110, 111, 116, 32, 101, 120,
      105, 115, 116, 32, 97, 32, 110, 111, 110, 45, 105, 110, 116, 101, 114, 97, 99,
      116, 105, 118, 101, 32, 112, 114, 111, 111, 102, 32, 121, 101, 116>>
\* "rpc"
RpcFailed ==
    <<114, 112, 99>>

\* ProofGenerator::process_request, for a generator that holds the tree and, when
\* proof is not NoProof, a non-interactive proof of the blocks in block_numbers;
\* rpc_ok: the node answers retrieve_block_headers
process_request(req, leaf_nb, proof, block_numbers, rpc_ok) ==
    LET headers == [i \in 1..Len(block_numbers) |-> Header(block_numbers[i])]
        last_blocks == <<Header(leaf_nb)>>
        last_block == req.args[4]
        contained == \E i \in 1..Len(block_numbers) : block_numbers[i] = last_block
        omitted_blocks == SelectSeq(block_numbers, LAMBDA number : number <= last_block)
        full_header == SelectSeq(headers, LAMBDA header : ~(header.number <= last_block))
    IN  IF req.type = "LatestBlockNumber" THEN ResponseLatestBlockNumber(leaf_nb)
        ELSE IF req.type = "BlockHeader"
        THEN (IF rpc_ok THEN ResponseBlockHeader(Header(req.args[1]))
              ELSE ResponseError(RpcFailed))
        ELSE IF req.args[1] # SERVER_LAMBDA \/ req.args[2] # SERVER_C \/ req.args[3] # SERVER_L
        THEN ResponseError(NoSuchConfiguration)
        ELSE IF proof = NoProof THEN ResponseError(NoProofYet)
        ELSE IF req.type = "NonInteractiveProof"
        THEN ResponseNonInteractiveProof(headers, proof, SERVER_L, proof.root_difficulty,
                                         last_blocks)
        ELSE ResponseContinueNonInteractiveProof(
                 IF contained THEN omitted_blocks ELSE <<>>,
                 IF contained THEN full_header ELSE headers,
                 proof, SERVER_L, proof.root_difficulty, last_blocks)

\* the requests a client makes
Requests ==
    {RequestLatestBlockNumber}
        \cup {RequestBlockHeader(nb) : nb \in {0, leaf_number}}
        \cup {RequestNonInteractiveProof(SERVER_LAMBDA, SERVER_C, l) : l \in {SERVER_L, 1}}
        \cup {RequestContinueNonInteractiveProof(SERVER_LAMBDA, SERVER_C, SERVER_L, last_block) :
                  last_block \in {0, 1}}

InitCodec == InitOf(CodecDifficulties)

\* the tree grows between the exchanges
AppendLeafCodec ==
    /\ frame.kind = "none"
    /\ AppendLeafOf(CodecDifficulties, MaxCodecLeaves)

\* the prover and the server make and drop their proof between the exchanges
GenerateProofCodec ==
    /\ frame.kind = "none"
    /\ ~connection.closed
    /\ GenerateProof

DropProofCodec ==
    /\ frame.kind = "none"
    /\ ~connection.closed
    /\ DropProof

\* proof.serialize() of a generated proof
SerializeProof ==
    /\ response_proof # NoProof
    /\ pristine
    /\ frame.kind = "none"
    /\ ~connection.closed
    /\ frame' = Frame("Proof", proof_serialize(datastore, response_proof), response_proof, "none")
    /\ call' = [op |-> "Proof::serialize", arg |-> Len(response_proof.elem), ret |-> Return(0)]
    /\ UNCHANGED <<server_vars, tree_vars, proof_vars, store_vars, decoded, connection>>

\* request.serialize() of a client
SerializeRequest ==
    \E req \in Requests :
        /\ frame.kind = "none"
        /\ ~connection.closed
        /\ frame' = Frame("Request", request_serialize(req), req, "none")
        /\ call' = [op |-> "Request::serialize", arg |-> TypeByte(req.type), ret |-> Return(0)]
        /\ UNCHANGED <<server_vars, tree_vars, proof_vars, store_vars, decoded, connection>>

\* eight bytes for a length prefix or a vector count that is more than the
\* bytes of a frame of len bytes: len itself, 2^32, 2^60, 2^64 - 9, 2^64 - 1
SpecialLengths(len) ==
    {to_be_bytes(len, 8), <<0, 0, 0, 1, 0, 0, 0, 0>>, <<16, 0, 0, 0, 0, 0, 0, 0>>,
     <<255, 255, 255, 255, 255, 255, 255, 247>>,
     <<255, 255, 255, 255, 255, 255, 255, 255>>}

\* where the length prefixes and the vector counts of a response start
LengthOffsets(resp) ==
    IF resp.type = "BlockHeader" THEN {1}
    ELSE IF resp.type = "NonInteractiveProof"
    THEN {1, 1 + Len(write_vec("Header", resp.headers))}
    ELSE IF resp.type = "ContinueNonInteractiveProof"
    THEN {1, 1 + Len(write_vec("u64", resp.omitted_blocks)),
          (1 + Len(write_vec("u64", resp.omitted_blocks)))
              + Len(write_vec("Header", resp.headers))}
    ELSE {}

\* the lengths a frame of len bytes is cut to: nothing, the tag alone, inside the
\* first field, inside the header of a proof, half, inside the last field, all
\* but one byte
TruncatedLengths(len) ==
    {0, 1, 5, 60, len \div 2, len - 9, len - 1} \cap 0..(len - 1)

\* bytes with the bytes of patch from offset on (offset counts from 0)
Overwrite(bytes, offset, patch) ==
    [i \in 1..Len(bytes) |->
        IF i > offset /\ i <= offset + Len(patch) THEN patch[i - offset] ELSE bytes[i]]

\* what a peer or the network makes of a frame before it is read: cut short,
\* followed by one more byte, with a tag no type has, or with a length prefix
\* or vector count of more than there is
DamageFrame ==
    /\ frame.kind # "none"
    /\ frame.damage = "none"
    /\ decoded.kind = "none"
    /\ \/ \E n \in TruncatedLengths(Len(frame.bytes)) :
              frame' = [frame EXCEPT !.bytes = SubSeq(frame.bytes, 1, n),
                                     !.damage = "truncated"]
       \/ \E byte \in {0, 255} :
              frame' = [frame EXCEPT !.bytes = Append(frame.bytes, byte),
                                     !.damage = "extended"]
       \/ /\ frame.kind \in {"Request", "Response"}
          /\ frame' = [frame EXCEPT !.bytes = Overwrite(frame.bytes, 0, <<9>>),
                                    !.damage = "tag"]
       \/ /\ frame.kind = "Proof"
          /\ Len(frame.bytes) > 56
          /\ frame' = [frame EXCEPT !.bytes = Overwrite(frame.bytes, 56, <<9>>),
                                    !.damage = "tag"]
       \/ /\ frame.kind = "Response"
          /\ \E offset \in LengthOffsets(frame.value), patch \in SpecialLengths(Len(frame.bytes)) :
                 frame' = [frame EXCEPT !.bytes = Overwrite(frame.bytes, offset, patch),
                                        !.damage = "length"]
    /\ call' = [op |-> "damage", arg |-> Len(frame.bytes), ret |-> Return(0)]
    /\ UNCHANGED <<server_vars, tree_vars, proof_vars, store_vars, decoded, connection>>

\* Proof::deserialize, Request::deserialize or Response::deserialize of the bytes
\* of the frame, in a build with or without overflow checks
Deserialize ==
    \E overflow_checks \in BOOLEAN, alloc_ok \in BOOLEAN :
        /\ frame.kind # "none"
        /\ decoded.kind = "none"
        /\ decoded' =
               Decoded(frame.kind,
                       IF frame.kind = "Proof" THEN proof_deserialize(datastore, frame.bytes)
                       ELSE IF frame.kind = "Request" THEN request_deserialize(frame.bytes)
                       ELSE response_deserialize(datastore, frame.bytes, overflow_checks,
                                                 alloc_ok))
        /\ call' = [op |-> "deserialize", arg |-> Len(frame.bytes), ret |-> Return(0)]
        /\ UNCHANGED <<server_vars, tree_vars, proof_vars, store_vars, frame, connection>>

\* stream.write(&response.serialize()) of the response of the other thread
write_response(response, bytes) ==
    /\ connection' = Connection(frame.bytes, bytes, TRUE)
    /\ frame' = Frame("Response", bytes, response, "none")

\* handle_connection after read_to_end, with req the Result of
\* Request::deserialize(&buffer) and response what the other thread sends back
handle_request(req, response) ==
    IF req.kind = "Return"
    THEN write_response(response, response_serialize(datastore, response))
    ELSE /\ connection' = Connection(frame.bytes, <<>>, TRUE)
         /\ frame' = NoFrame

\* handle_connection(stream, request_sender): read_to_end, Request::deserialize,
\* then either the return without a write or the response of the other thread
\* written to the stream; the stream is closed when the function returns
HandleConnection ==
    \E rpc_ok \in BOOLEAN :
        /\ frame.kind = "Request"
        /\ decoded.kind = "none"
        /\ ~connection.closed
        /\ handle_request(request_deserialize(frame.bytes),
                          process_request(request_deserialize(frame.bytes).value, leaf_number,
                                          response_proof, response_blocks, rpc_ok))
        /\ call' = [op |-> "handle_connection", arg |-> Len(frame.bytes), ret |-> Return(0)]
        /\ UNCHANGED <<server_vars, tree_vars, proof_vars, store_vars, decoded>>

\* the end of an exchange
DropFrame ==
    /\ frame.kind # "none" \/ connection.closed
    /\ frame' = NoFrame
    /\ decoded' = NoDecoded
    /\ connection' = NoConnection
    /\ UNCHANGED <<server_vars, tree_vars, proof_vars, store_vars, call>>

NextCodec ==
    \/ AppendLeafCodec
    \/ GenerateProofCodec
    \/ DropProofCodec
    \/ SerializeProof
    \/ SerializeRequest
    \/ DamageFrame
    \/ Deserialize
    \/ HandleConnection
    \/ DropFrame

SpecCodec == InitCodec /\ [][NextCodec]_vars

\* --------------------------------------------------- properties of the codec
\* C14: for every proof p that generate_proof produced, Proof::deserialize of
\* p.serialize() succeeds and yields root_hash, root_difficulty, leaf_number and
\* the sequence of elements of p
C14_ProofCodecRoundTrip ==
    (decoded.kind = "Proof" /\ frame.damage = "none") =>
        /\ decoded.ret.kind = "Return"
        /\ decoded.ret.value = frame.value

\* a proof with a left and a right Node went through the codec unchanged
C14_Witness ==
    /\ decoded.kind = "Proof"
    /\ frame.damage = "none"
    /\ decoded.ret.kind = "Return"
    /\ \E i \in 1..Len(decoded.ret.value.elem) :
           decoded.ret.value.elem[i].type = "Node" /\ decoded.ret.value.elem[i].dir
    /\ \E i \in 1..Len(decoded.ret.value.elem) :
           decoded.ret.value.elem[i].type = "Node" /\ ~decoded.ret.value.elem[i].dir

\* C15: Request::deserialize and Response::deserialize return an error for a
\* valid encoding followed by one or more bytes, unless the encoding is that of
\* an Error response
C15_TrailingBytesRejected ==
    (/\ decoded.kind \in {"Request", "Response"}
     /\ frame.damage = "extended"
     /\ frame.value.type # "Error") =>
        decoded.ret.kind = "Err"

\* what the two do with the byte that follows: the value is the one that was
\* encoded, the byte is not looked at
TrailingBytesIgnored ==
    (/\ decoded.kind \in {"Request", "Response"}
     /\ frame.damage = "extended"
     /\ frame.value.type # "Error") =>
        /\ decoded.ret.kind = "Return"
        /\ decoded.ret.value = frame.value

\* C16: deserialization of a request, a response or a proof returns and never
\* aborts; an empty input, a tag no type has, and a length prefix or a vector
\* count of more than the remaining bytes (values near 2^64 among them) each
\* yield Err
C16_DeserializeNeverAborts ==
    decoded.kind # "none" =>
        /\ decoded.ret.kind \in {"Return", "Err"}
        /\ (frame.bytes = <<>> \/ frame.damage \in {"tag", "length"}) =>
               decoded.ret.kind = "Err"

\* the part of it that holds: requests and proofs always return, and so do
\* responses but for those with a length prefix or a count that was changed;
\* the empty input and the unknown tags are errors
DeserializeAbortsOnLengthsOnly ==
    decoded.kind # "none" =>
        /\ (decoded.kind \in {"Request", "Proof"} \/ frame.damage # "length") =>
               decoded.ret.kind \in {"Return", "Err"}
        /\ (frame.bytes = <<>> \/ frame.damage = "tag") => decoded.ret.kind = "Err"

\* a frame cut short inside a field of a request is an error
TruncatedRequestRejected ==
    (decoded.kind = "Request" /\ frame.damage = "truncated") => decoded.ret.kind = "Err"

\* C17: when the server read a request that Request::deserialize rejects, the
\* peer receives a Response::Error on that connection
C17_RejectedRequestAnswered ==
    (connection.closed /\ request_deserialize(connection.read).kind = "Err") =>
        /\ Len(connection.written) > 0
        /\ connection.written[1] = TypeByte("Error")

\* what the peer receives then: nothing
RejectedRequestUnanswered ==
    (connection.closed /\ request_deserialize(connection.read).kind = "Err") =>
        connection.written = <<>>

\* a request that is read as one is answered
AcceptedRequestAnswered ==
    (connection.closed /\ request_deserialize(connection.read).kind = "Return") =>
        Len(connection.written) > 0

\* ------------------------------------------------ the store after appends
MaxAppendLeaves == 8
AppendDifficulties == {1, 2}

InitAppend == InitOf(AppendDifficulties)

AppendLeafAppend == AppendLeafOf(AppendDifficulties, MaxAppendLeaves)

NextAppend == AppendLeafAppend

SpecAppend == InitAppend /\ [][NextAppend]_vars

RECURSIVE MerkleRoot(_)
\* the node that commits to the leaves ls: a leaf for one, else the parent of
\* the nodes that commit to the first get_left_leaf_number leaves and to the rest
MerkleRoot(ls) ==
    IF Len(ls) = 1 THEN ls[1]
    ELSE LET left_leaf_number == get_left_leaf_number(Len(ls))
             left == MerkleRoot(SubSeq(ls, 1, left_leaf_number))
             right == MerkleRoot(SubSeq(ls, left_leaf_number + 1, Len(ls)))
         IN  MmrElem(<<left.hash, left.difficulty, right.hash, right.difficulty>>,
                     left.difficulty + right.difficulty)

\* C21: after MerkleTree::new and after every append_leaf the store holds
\* exactly 2 * leaf_number - 1 nodes, one slot after the other, and the last
\* slot, which get_root_elem returns, is the node that commits to all leaves
C21_StoreSizeAndRoot ==
    /\ get_len(datastore) = (2 * leaf_number) - 1
    /\ leaf_number = Len(leaves)
    /\ MmrElem(get_root_elem(datastore).hash, get_root_elem(datastore).difficulty)
           = MerkleRoot(leaves)
    /\ get_root_elem(datastore).position = get_len(datastore) - 1

\* a tree of seven leaves, whose right spine holds two roots of unbalanced
\* subtrees, after its last append
C21_Witness ==
    /\ leaf_number = 7
    /\ call.op = "append_leaf"
    /\ get_len(datastore) = 13

RECURSIVE UnbalancedRoots(_)
\* the number of turns of the first loop of append_leaf on a tree of
\* curr_tree_number leaves, each of which removes the last element
UnbalancedRoots(curr_tree_number) ==
    IF is_power_of_two(curr_tree_number) THEN 0
    ELSE 1 + UnbalancedRoots(curr_tree_number
                                 - (next_power_of_two(curr_tree_number) \div 2))

\* the store before a step is kept up to slot kept by the step
KeptUpTo(kept) ==
    /\ kept <= Len(datastore')
    /\ \A k \in 1..kept : datastore'[k] = datastore[k]

\* leaf i is at slot get_node_number(i) with its hash and difficulty
LeavesInPlace(store, ls) ==
    \A i \in 0..(Len(ls) - 1) :
        /\ get_node_number(i) < Len(store)
        /\ store[get_node_number(i) + 1] = ls[i + 1]

\* C22 as stated: an append_leaf modifies or removes no node of the store but
\* the one that was the root before it
C22_NodesImmutable_AsClaimed ==
    [][AppendStep => KeptUpTo(Len(datastore) - 1)]_vars

\* C22: an append_leaf modifies no node; it removes the last slots of the
\* store, one for each subtree on the right spine that is not perfect (none for
\* a power of two of leaves, else the root and the roots below it on the spine),
\* and keeps every slot before them; every leaf i stays at slot
\* get_node_number(i) with its hash and difficulty
C22_NodesImmutable ==
    [][AppendStep => /\ KeptUpTo(Len(datastore) - UnbalancedRoots(leaf_number))
                     /\ LeavesInPlace(datastore', leaves)
                     /\ LeavesInPlace(datastore', leaves')]_vars

\* the eighth leaf was appended: the append removed the root of the seven
\* leaves and the root of leaves 4 to 6 below it
C22_Witness ==
    /\ leaf_number = 8
    /\ call.op = "append_leaf"
    /\ UnbalancedRoots(leaf_number - 1) = 2
    /\ LeavesInPlace(datastore, leaves)

\* the slots of the leaves
LeafSlots == {get_node_number(i) : i \in 0..(leaf_number - 1)}

\* the element is the parent of what get_children returns for it
ParentOfChildren(store, elem) ==
    /\ elem.difficulty = get_children(store, elem)[1].difficulty
                             + get_children(store, elem)[2].difficulty
    /\ elem.hash = <<get_children(store, elem)[1].hash,
                     get_children(store, elem)[1].difficulty,
                     get_children(store, elem)[2].hash,
                     get_children(store, elem)[2].difficulty>>
    /\ get_children(store, elem)[1].position < get_children(store, elem)[2].position
    /\ get_children(store, elem)[2].position = elem.position - 1

\* C24: after any sequence of appends has_children is false for the leaf_number
\* slots of the leaves and true for every other slot, and get_children of a slot
\* with children returns (left, right) with node.difficulty = left.difficulty +
\* right.difficulty and node.hash = hash_children(left, right)
C24_MerkleInvariant ==
    /\ Cardinality(LeafSlots) = leaf_number
    /\ \A k \in 0..(get_len(datastore) - 1) :
           /\ has_children(datastore, get_elem(datastore, k)) <=> k \notin LeafSlots
           /\ has_children(datastore, get_elem(datastore, k)) =>
                  ParentOfChildren(datastore, get_elem(datastore, k))

\* a tree of seven leaves: its root has the perfect subtree of four leaves on
\* the left and an unbalanced one of three on the right
C24_Witness ==
    /\ leaf_number = 7
    /\ has_children(datastore, get_root_elem(datastore))
    /\ get_children(datastore, get_root_elem(datastore))[1].position = 6
    /\ get_children(datastore, get_root_elem(datastore))[2].position = 11
    /\ ~has_children(datastore, get_elem(datastore, 10))

\* ------------------------------------------ the replay of a generated proof
MaxReplayLeaves == 7
ReplayDifficulties == {1}

InitReplay == InitOf(ReplayDifficulties)

AppendLeafReplay == AppendLeafOf(ReplayDifficulties, MaxReplayLeaves)

\* ProofBlock::new(number, None) for every requested number
RequestedBlocks ==
    /\ response_proof # NoProof
    /\ verified = NoVerified
    /\ origin = "none"
    /\ blocks_with_weight' =
           [i \in 1..Len(response_blocks) |-> ProofBlock(response_blocks[i], None)]
    /\ origin' = "replay"
    /\ UNCHANGED <<server_vars, wire_vars, tree_vars, store_vars, call, response_proof, response_blocks,
                   sampled_weights, pristine, verified>>

NextReplay ==
    \/ AppendLeafReplay
    \/ GenerateProof
    \/ RequestedBlocks
    \/ VerifyProof
    \/ DropProof

SpecReplay == InitReplay /\ [][NextReplay]_vars

\* a generated proof replayed with the blocks that were requested, none with a
\* weight, on a tree of two or more leaves for a request that is not empty
Replayed ==
    /\ verified.origin = "replay"
    /\ verified.pristine
    /\ verified.proof_blocks # <<>>
    /\ leaf_number >= 2

\* C23: for every MMR of two or more leaves and every non-empty set of leaf
\* indices, generate_proof returns a proof whose replay in verify_proof with
\* ProofBlocks without aggr_weight rebuilds the root of the MMR, hash and
\* difficulty, and returns Ok
C23_RootReconstruction ==
    /\ (call.op = "generate_proof" /\ call.arg > 0 /\ leaf_number >= 2) =>
           call.ret.kind = "Return"
    /\ Replayed =>
           /\ verified.result.res = "Ok"
           /\ Len(verified.result.final) = 1
           /\ verified.result.final[1].hash = get_root_hash(datastore)
           /\ verified.result.final[1].difficulty = get_root_difficulty(datastore)

\* the replay of the proof of leaves 2 and 6 of seven
C23_Witness ==
    /\ Replayed
    /\ leaf_number = 7
    /\ verified.result.res = "Ok"
    /\ {verified.proof_blocks[i].number : i \in 1..Len(verified.proof_blocks)} = {2, 6}

\* ------------------------------------------------ the queries on the tree
\* C27: get_left_difficulty(k) returns for every k in 0..leaf_number, k =
\* leaf_number included, and get_child_by_aggr_weight_disc(t) returns for every
\* target weight t
C27_QueriesTerminate ==
    call.op \in {"get_left_difficulty", "get_child_by_aggr_weight_disc"} =>
        call.ret.kind = "Return"

\* what does hold: the queries return for every k below leaf_number and every t
QueriesBelowLeafNumberTerminate ==
    /\ (call.op = "get_left_difficulty" /\ call.arg < leaf_number) =>
           call.ret.kind = "Return"
    /\ call.op = "get_child_by_aggr_weight_disc" => call.ret.kind = "Return"

\* get_left_difficulty(leaf_number) on two or more leaves never leaves its loop,
\* and on one leaf it reads the node before the first
LeftDifficultyOfLeafNumberReturns ==
    (call.op = "get_left_difficulty" /\ call.arg = leaf_number /\ leaf_number >= 1) =>
        call.ret.kind = "Return"

\* ------------------------------------------------ difficulties of 128 bits
\* A u128 is its sixteen big-endian bytes.
U128Max == [i \in 1..16 |-> 255]

\* 2^127
U128HighBit == [i \in 1..16 |-> IF i = 1 THEN 128 ELSE 0]

RECURSIVE add_be(_, _, _, _, _)
\* the digits of a + b from digit i down to the first, and the carry out of them
add_be(a, b, i, carry, acc) ==
    IF i = 0 THEN [bytes |-> acc, carry |-> carry]
    ELSE add_be(a, b, i - 1, (a[i] + b[i] + carry) \div 256,
                <<(a[i] + b[i] + carry) % 256>> \o acc)

\* a + b passes u128::MAX
Overflows(a, b) == add_be(a, b, 16, 0, <<>>).carry = 1

\* a + b on u128: a build with overflow checks panics when the sum passes
\* u128::MAX, a build without them keeps the sum modulo 2^128
u128_add(a, b, overflow_checks) ==
    IF Overflows(a, b) /\ overflow_checks THEN Panic
    ELSE Return(add_be(a, b, 16, 0, <<>>).bytes)

\* hash_children and the sum of the difficulties of two siblings
combine_u128(left, right, overflow_checks) ==
    LET sum == u128_add(left.difficulty, right.difficulty, overflow_checks)
    IN  IF sum.kind = "Panic" THEN Panic
        ELSE Return(MmrElem(hash_children(left, right), sum.value))

Appended(kind, store) == [kind |-> kind, store |-> store]

RECURSIVE append_hash_u128(_, _, _)
\* second loop of append_leaf on u128 difficulties
append_hash_u128(store, nodes_to_hash, overflow_checks) ==
    IF Len(nodes_to_hash) <= 1 THEN Appended("Return", store)
    ELSE LET n == Len(nodes_to_hash)
             new_intermediate_node ==
                 combine_u128(nodes_to_hash[n - 1], nodes_to_hash[n], overflow_checks)
         IN  IF new_intermediate_node.kind = "Panic" THEN Appended("Panic", store)
             ELSE append_hash_u128(
                      write_elem(store, new_intermediate_node.value),
                      Append(SubSeq(nodes_to_hash, 1, n - 2), new_intermediate_node.value),
                      overflow_checks)

\* append_leaf(hash, difficulty) on u128 difficulties: the store it leaves and
\* whether it returned
append_leaf_u128(store, leaf_nb, hash, difficulty, overflow_checks) ==
    LET new_elem == MmrElem(hash, difficulty)
        c == append_collect(store, <<>>, leaf_nb, 0)
        nodes1 == Append(c.nodes_to_hash, get_root_elem(c.store))
        store1 == write_elem(c.store, new_elem)
        nodes2 == Append(nodes1, new_elem)
    IN  append_hash_u128(store1, nodes2, overflow_checks)

RECURSIVE get_root_u128(_, _)
\* get_root(&nodes) on u128 difficulties
get_root_u128(nodes, overflow_checks) ==
    IF Len(nodes) <= 1 THEN Return(MmrElem(nodes[1].hash, nodes[1].difficulty))
    ELSE LET n == Len(nodes)
             c == combine_u128(nodes[n - 1], nodes[n], overflow_checks)
         IN  IF c.kind = "Panic" THEN Panic
             ELSE get_root_u128(Append(SubSeq(nodes, 1, n - 2),
                                       StackNode(c.value.hash, c.value.difficulty,
                                                 NoIndex, NoIndex)),
                                overflow_checks)

\* nodes.push_back((hash, sum), Some(index), Some(leaf_nb)) when the sum was made
push_back_u128(c, proof, proof_blocks, nodes, index, leaf_nb) ==
    IF c.kind = "Panic" THEN Abort("Panic", "attempt to add with overflow", proof, nodes)
    ELSE Continue(proof, proof_blocks,
                  Append(nodes, StackNode(c.value.hash, c.value.difficulty, index, leaf_nb)))

\* the ProofElem::Child arm on u128 difficulties, for a block without aggr_weight
verify_child_u128(child, proof, proof_blocks, nodes, leaf_nb, overflow_checks) ==
    IF proof_blocks = <<>> THEN Abort("Panic", "proof_blocks.pop().unwrap()", proof, nodes)
    ELSE
    LET number == Back(proof_blocks).number
        blocks1 == PopBack(proof_blocks)
    IN  IF nodes # <<>> /\ get_root_u128(nodes, overflow_checks).kind = "Panic"
        THEN Abort("Panic", "attempt to add with overflow", proof, nodes)
        ELSE IF number % 2 = 0 /\ leaf_nb = 0 /\ overflow_checks
        THEN Abort("Panic", "leaf_number - 1", proof, nodes)
        ELSE IF number % 2 = 0 /\ number # leaf_nb - 1
        THEN IF proof = <<>>
             THEN Abort("Panic", "proof.pop_front().unwrap()", proof, nodes)
             ELSE IF Head(proof).type = "Root"
             THEN Abort("Err", "Expected ???", Tail(proof), nodes)
             ELSE IF Head(proof).type = "Child" /\ blocks1 = <<>>
             THEN Abort("Panic", "proof_blocks.pop().unwrap()", Tail(proof), nodes)
             ELSE push_back_u128(combine_u128(child, Head(proof), overflow_checks),
                                 Tail(proof),
                                 IF Head(proof).type = "Child" THEN PopBack(blocks1)
                                 ELSE blocks1,
                                 nodes, number \div 2, leaf_nb \div 2)
        ELSE IF nodes = <<>>
        THEN Abort("Panic", "nodes.pop_back().unwrap()", proof, nodes)
        ELSE push_back_u128(combine_u128(Back(nodes), child, overflow_checks),
                            proof, blocks1, PopBack(nodes), number \div 2, leaf_nb \div 2)

\* the ProofElem::Node arm on u128 difficulties
verify_node_u128(node, proof, proof_blocks, nodes, overflow_checks) ==
    IF node.dir
    THEN IF nodes = <<>>
         THEN Abort("Panic", "nodes.pop_back().unwrap()", proof, nodes)
         ELSE IF combine_u128(Back(nodes), node, overflow_checks).kind = "Panic"
         THEN Abort("Panic", "attempt to add with overflow", proof, PopBack(nodes))
         ELSE IF Back(nodes).index = NoIndex
         THEN Abort("Panic", "left_index.unwrap()", proof, PopBack(nodes))
         ELSE push_back_u128(combine_u128(Back(nodes), node, overflow_checks),
                             proof, proof_blocks, PopBack(nodes),
                             Back(nodes).index \div 2, Back(nodes).leaf_nb \div 2)
    ELSE Continue(proof, proof_blocks,
                  Append(nodes, StackNode(node.hash, node.difficulty, NoIndex, NoIndex)))

RECURSIVE collapse_u128(_, _, _, _)
\* the inner while loop on u128 difficulties
collapse_u128(proof, proof_blocks, nodes, overflow_checks) ==
    IF ~(Len(nodes) > 1) THEN Continue(proof, proof_blocks, nodes)
    ELSE LET n == Len(nodes)
             node2 == nodes[n]
             c == combine_u128(nodes[n - 1], nodes[n], overflow_checks)
         IN  IF node2.index = NoIndex \/ (node2.index % 2 # 1 /\ proof # <<>>)
             THEN Continue(proof, proof_blocks, nodes)
             ELSE IF c.kind = "Panic"
             THEN Abort("Panic", "attempt to add with overflow", proof, SubSeq(nodes, 1, n - 2))
             ELSE collapse_u128(proof, proof_blocks,
                                Append(SubSeq(nodes, 1, n - 2),
                                       StackNode(c.value.hash, c.value.difficulty,
                                                 node2.index \div 2, node2.leaf_nb \div 2)),
                                overflow_checks)

\* one element of the proof: its arm, then the inner loop
verify_elem_u128(proof_elem, rest, proof_blocks, nodes, leaf_nb, overflow_checks) ==
    IF proof_elem.type = "Child"
    THEN verify_child_u128(proof_elem, rest, proof_blocks, nodes, leaf_nb, overflow_checks)
    ELSE IF proof_elem.type = "Node"
    THEN verify_node_u128(proof_elem, rest, proof_blocks, nodes, overflow_checks)
    ELSE Continue(rest, proof_blocks, nodes)

RECURSIVE verify_loop_u128(_, _)
\* while !proof.is_empty(), from the state the last iteration left
verify_loop_u128(state, env) ==
    IF state.res # "Continue" THEN Verdict(state.res, state.err, state.nodes, state.proof)
    ELSE IF state.proof = <<>> THEN verify_final(state.nodes, env.root)
    ELSE LET step == verify_elem_u128(Head(state.proof), Tail(state.proof),
                                      state.proof_blocks, state.nodes,
                                      env.leaf_nb, env.overflow_checks)
         IN  IF step.res # "Continue"
             THEN Verdict(step.res, step.err, step.nodes, step.proof)
             ELSE verify_loop_u128(collapse_u128(step.proof, step.proof_blocks, step.nodes,
                                                 env.overflow_checks),
                                   env)

\* Proof::verify_proof on u128 difficulties
verify_proof_u128(elem, proof_blocks, overflow_checks) ==
    IF elem = <<>> THEN Verdict("Err", "Empty proof", <<>>, <<>>)
    ELSE IF Back(elem).type # "Root"
    THEN Verdict("Err", "Got proof element, which is not the expected root",
                 <<>>, PopBack(elem))
    ELSE IF Len(elem) = 2
    THEN IF elem[1].type = "Child" /\ elem[1].hash = Back(elem).hash
         THEN Verdict("Ok", "",
                      <<StackNode(elem[1].hash, elem[1].difficulty, NoIndex, NoIndex)>>, <<>>)
         ELSE Verdict("Err", "Single element in proof is not correct", <<>>, <<>>)
    ELSE verify_loop_u128(Continue(PopBack(elem), sort_dedup_reverse(proof_blocks), <<>>),
                          [root |-> Back(elem), leaf_nb |-> Back(elem).leaf_number,
                           overflow_checks |-> overflow_checks])

MaxOverflowLeaves == 3
OverflowDifficulties == {to_be_bytes(1, 16), U128HighBit, U128Max}

InitOverflow == InitOf(OverflowDifficulties)

\* append_leaf panicked: the tree is left between two of its writes
Poisoned == call.op = "append_leaf" /\ call.ret.kind = "Panic"

AppendLeafOverflow ==
    \E hash \in {BlockHash(leaf_number)}, difficulty \in OverflowDifficulties,
       overflow_checks \in BOOLEAN :
        LET appended == append_leaf_u128(datastore, leaf_number, hash, difficulty,
                                         overflow_checks)
        IN  /\ leaf_number < MaxOverflowLeaves
            /\ response_proof = NoProof
            /\ ~Poisoned
            /\ datastore' = appended.store
            /\ leaf_number' = IF appended.kind = "Return" THEN leaf_number + 1
                              ELSE leaf_number
            /\ leaves' = Append(leaves, MmrElem(hash, difficulty))
            /\ UNCHANGED merkle_tree
            /\ call' = [op |-> "append_leaf", arg |-> difficulty,
                        ret |-> IF appended.kind = "Return" THEN Return(0) ELSE Panic]
            /\ UNCHANGED <<server_vars, wire_vars, proof_vars, store_vars>>

GenerateProofOverflow == ~Poisoned /\ GenerateProof

VerifyProofOverflow ==
    /\ response_proof # NoProof
    /\ origin = "replay"
    /\ \E overflow_checks \in BOOLEAN :
           LET result == verify_proof_u128(response_proof.elem, blocks_with_weight,
                                           overflow_checks)
           IN  /\ verified' = [origin |-> origin, pristine |-> pristine,
                               elem |-> response_proof.elem,
                               proof_blocks |-> blocks_with_weight,
                               result |-> result]
               /\ response_proof' = [response_proof EXCEPT !.elem = result.elem]
               /\ call' = [op |-> "verify_proof", arg |-> Len(blocks_with_weight),
                           ret |-> IF result.res = "Ok" THEN Return(0)
                                   ELSE IF result.res = "Panic" THEN Panic
                                   ELSE Err(0)]
    /\ pristine' = FALSE
    /\ blocks_with_weight' = <<>>
    /\ origin' = "none"
    /\ UNCHANGED <<server_vars, wire_vars, tree_vars, store_vars, response_blocks, sampled_weights>>

NextOverflow ==
    \/ AppendLeafOverflow
    \/ GenerateProofOverflow
    \/ RequestedBlocks
    \/ VerifyProofOverflow
    \/ DropProof

SpecOverflow == InitOverflow /\ [][NextOverflow]_vars

\* a stored parent whose difficulty is the sum of its children modulo 2^128
WrappedParents(store) ==
    {k \in 0..(get_len(store) - 1) :
        /\ has_children(store, get_elem(store, k))
        /\ Overflows(get_children(store, get_elem(store, k))[1].difficulty,
                     get_children(store, get_elem(store, k))[2].difficulty)}

RECURSIVE SumOverflows(_, _)
\* adding the difficulties of the elements to sum passes u128::MAX on the way
SumOverflows(elems, sum) ==
    IF elems = <<>> THEN FALSE
    ELSE Overflows(sum, Head(elems).difficulty)
         \/ SumOverflows(Tail(elems), add_be(sum, Head(elems).difficulty, 16, 0, <<>>).bytes)

\* verify_proof accepted elements whose difficulties do not add up within u128
AcceptedWrappedSum ==
    /\ verified.result.res = "Ok"
    /\ SumOverflows(PopBack(verified.elem), to_be_bytes(0, 16))

\* C26: an append_leaf or a sibling combination of the verifier whose sum would
\* pass 2^128 - 1 ends in an error, and the sum modulo 2^128 is never stored in
\* the tree nor accepted by verify_proof
C26_OverflowIsFatal ==
    /\ ~Poisoned => WrappedParents(datastore) = {}
    /\ ~AcceptedWrappedSum

\* what does hold: an append_leaf that panicked did not count its leaf
PanickedAppendNotCounted ==
    Poisoned => Len(leaves) = leaf_number + 1

\* ------------------------------------------- the blocks a proof is checked for
\* the Child elements of a proof
Children(elem) == SelectSeq(elem, LAMBDA proof_elem : proof_elem.type = "Child")

\* the distinct block numbers of the expected blocks
BlockNumbers(proof_blocks) == {proof_blocks[i].number : i \in 1..Len(proof_blocks)}

\* C29: if verify_proof returns Ok then every distinct block number of
\* proof_blocks was consumed by exactly one Child element: a proof with fewer
\* Child elements than distinct expected blocks is never accepted
C29_EveryBlockConsumed ==
    verified.result.res = "Ok" =>
        Len(Children(verified.elem)) = Cardinality(BlockNumbers(verified.proof_blocks))

\* what does hold: an accepted proof of more than one element has at most one
\* Child for every distinct expected block
NoChildWithoutBlock ==
    (verified.result.res = "Ok" /\ Len(verified.elem) > 2) =>
        Len(Children(verified.elem)) <= Cardinality(BlockNumbers(verified.proof_blocks))

\* ------------------------------------------------ the header of a proof
MaxHeaderLeaves == 3
HeaderDifficulties == {1}

InitHeader == InitOf(HeaderDifficulties)

AppendLeafHeader ==
    /\ frame.kind = "none"
    /\ AppendLeafOf(HeaderDifficulties, MaxHeaderLeaves)

\* where the last byte of root_hash, of root_difficulty and of leaf_number is in
\* the bytes of a proof (counted from 0)
HeaderOffsets == {31, 47, 55}

\* the sender writes a header of its choosing in front of the elements
ForgeHeader ==
    /\ frame.kind = "Proof"
    /\ frame.damage = "none"
    /\ decoded.kind = "none"
    /\ \E offset \in HeaderOffsets, byte \in 1..3 :
           /\ frame.bytes[offset + 1] # byte
           /\ frame' = [frame EXCEPT !.bytes = Overwrite(frame.bytes, offset, <<byte>>),
                                     !.damage = "header"]
    /\ call' = [op |-> "forge_header", arg |-> Len(frame.bytes), ret |-> Return(0)]
    /\ UNCHANGED <<server_vars, tree_vars, proof_vars, store_vars, decoded, connection>>

\* Proof::deserialize of the bytes received: the proof the client goes on with,
\* and the numbers of the blocks it asked for without weights
ReceiveProof ==
    /\ frame.kind = "Proof"
    /\ decoded.kind = "none"
    /\ decoded' = Decoded("Proof", proof_deserialize(datastore, frame.bytes))
    /\ decoded'.ret.kind = "Return"
    /\ response_proof' = decoded'.ret.value
    /\ pristine' = (frame.damage = "none")
    /\ blocks_with_weight' =
           [i \in 1..Len(response_blocks) |-> ProofBlock(response_blocks[i], None)]
    /\ origin' = "received"
    /\ verified' = NoVerified
    /\ call' = [op |-> "Proof::deserialize", arg |-> Len(frame.bytes), ret |-> Return(0)]
    /\ UNCHANGED <<server_vars, tree_vars, store_vars, frame, connection, response_blocks, sampled_weights>>

VerifyReceived ==
    /\ origin = "received"
    /\ VerifyProof

\* the end of the exchange
DropReceived ==
    /\ frame.kind # "none"
    /\ frame' = NoFrame
    /\ decoded' = NoDecoded
    /\ response_proof' = NoProof
    /\ response_blocks' = <<>>
    /\ blocks_with_weight' = <<>>
    /\ origin' = "none"
    /\ pristine' = FALSE
    /\ verified' = NoVerified
    /\ UNCHANGED <<server_vars, tree_vars, store_vars, call, connection, sampled_weights>>

NextHeader ==
    \/ AppendLeafHeader
    \/ GenerateProofCodec
    \/ SerializeProof
    \/ ForgeHeader
    \/ ReceiveProof
    \/ VerifyReceived
    \/ DropReceived

SpecHeader == InitHeader /\ [][NextHeader]_vars

\* verify_proof accepted a proof that came from Proof::deserialize
ReceivedAccepted ==
    /\ decoded.kind = "Proof"
    /\ verified.origin = "received"
    /\ verified.result.res = "Ok"

\* C30: on a proof that came from Proof::deserialize, when verify_proof returns Ok
\* the hash, the difficulty and the leaf number of the Root terminator are the
\* root_hash, root_difficulty and leaf_number of the proof's header, which the
\* client passes to verify_required_blocks
C30_HeaderIsTheVerifiedRoot ==
    ReceivedAccepted =>
        /\ Back(verified.elem).hash = response_proof.root_hash
        /\ Back(verified.elem).difficulty = response_proof.root_difficulty
        /\ Back(verified.elem).leaf_number = response_proof.leaf_number

\* what does hold: the header of an accepted proof that nobody touched is its
\* Root terminator
UntouchedHeaderIsTheVerifiedRoot ==
    (ReceivedAccepted /\ verified.pristine) =>
        /\ Back(verified.elem).hash = response_proof.root_hash
        /\ Back(verified.elem).difficulty = response_proof.root_difficulty
        /\ Back(verified.elem).leaf_number = response_proof.leaf_number

\* ------------------------------------------------ the block header thread
MaxConnections == 3

\* headers.len() after sync_new_blocks: no block, one block, L + 1 blocks
HeaderCounts == {0, 1, SERVER_L + 1}

\* the requests of the clients of the server, and bytes that are no request
ServerRequests ==
    {RequestLatestBlockNumber, RequestBlockHeader(0),
     RequestNonInteractiveProof(SERVER_LAMBDA, SERVER_C, SERVER_L),
     RequestNonInteractiveProof(SERVER_LAMBDA, SERVER_C, 1),
     RequestContinueNonInteractiveProof(SERVER_LAMBDA, SERVER_C, SERVER_L, 0)}
ServerBuffers == {request_serialize(req) : req \in ServerRequests} \cup {<<>>}

\* RequestType { req, response_channel }
RequestOn(req, channel) == [req |-> req, response_channel |-> channel]

\* BlockHeaderThread::process_request: the response it sends
block_header_process_request(req, thread, rpc_ok) ==
    LET stored == thread.proof
        last_block == req.args[4]
        contained == \E i \in 1..Len(stored.extra_blocks) : stored.extra_blocks[i] = last_block
        kept == SelectSeq(stored.blocks, LAMBDA header : header.number <= last_block)
        omitted_blocks == [i \in 1..Len(kept) |-> kept[i].number]
        full_header == SelectSeq(stored.blocks, LAMBDA header : ~(header.number <= last_block))
    IN  IF req.type = "LatestBlockNumber"
        THEN (IF thread.headers = 0 THEN ResponseError(NoBlockYet)
              ELSE ResponseLatestBlockNumber(thread.headers))
        ELSE IF req.type = "BlockHeader"
        THEN (IF rpc_ok THEN ResponseBlockHeader(Header(req.args[1]))
              ELSE ResponseError(RpcFailed))
        ELSE IF req.args[1] # SERVER_LAMBDA \/ req.args[2] # SERVER_C \/ req.args[3] # SERVER_L
        THEN ResponseError(NoSuchConfiguration)
        ELSE IF ~stored.some THEN ResponseError(NoProofYet)
        ELSE IF req.type = "NonInteractiveProof"
        THEN ResponseNonInteractiveProof(stored.blocks, stored.proof, SERVER_L,
                                         stored.right_difficulty, thread.last_blocks)
        ELSE ResponseContinueNonInteractiveProof(
                 IF contained THEN omitted_blocks ELSE <<>>,
                 IF contained THEN full_header ELSE stored.blocks,
                 stored.proof, SERVER_L, stored.right_difficulty, thread.last_blocks)

\* the headers of the block numbers from..(to - 1), as retrieve_block_headers
\* returns them
HeadersOf(from, to) == [i \in 1..(to - from) |-> Header((from + i) - 1)]

\* CompleteNonInteractiveProof::create_proof on the tree of the first
\* next_mmr_root_number headers
create_proof(thread, created, next_mmr_root_number, l) ==
    IF created.kind # "Return" THEN Panic
    ELSE Return([thread EXCEPT
             !.mmr = TRUE,
             !.proof = Stored(TRUE,
                              [i \in 1..Len(created.value.blocks) |->
                                   Header(created.value.blocks[i])]
                                  \o HeadersOf(next_mmr_root_number, next_mmr_root_number + l),
                              created.value.proof, l, created.value.extra_blocks),
             !.last_blocks = HeadersOf(next_mmr_root_number + l, thread.headers)])

\* CompleteNonInteractiveProof::update_proof(rpc_handler, headers, l) with a tree
\* of mmr_leaf_number leaves (0 for None); created is what create_new_proof
\* returns when it is called. latest_block_number - l and begin_l_blocks - 1
\* underflow for l headers or less.
update_proof(thread, mmr_leaf_number, created, l, overflow_checks, rpc_ok) ==
    LET latest_block_number == thread.headers
        next_mmr_root_number == ((((latest_block_number - l) - 1) \div 128) * 128) + 1
    IN  IF latest_block_number <= l /\ overflow_checks THEN Panic
        ELSE IF ~rpc_ok THEN Panic
        ELSE IF latest_block_number < l + 1 \/ next_mmr_root_number = mmr_leaf_number
        THEN Return([thread EXCEPT
                 !.last_blocks = HeadersOf(mmr_leaf_number + l, latest_block_number)])
        ELSE create_proof(thread, created, next_mmr_root_number, l)

InitServer == InitOf({1})

\* while self.running.load(Ordering::SeqCst)
LoadRunning ==
    /\ block_header_thread.pc = "while"
    /\ block_header_thread' =
           [block_header_thread EXCEPT !.pc = IF running THEN "select" ELSE "exited"]
    /\ UNCHANGED <<wire_vars, tree_vars, proof_vars, store_vars, call,
                   running, request_channel, response_channel, listener>>

\* select!: recv(self.request_receiver) -> req => self.process_request(req.unwrap())?
SelectRecv ==
    \E rpc_ok \in BOOLEAN :
        /\ block_header_thread.pc = "select"
        /\ request_channel # <<>>
        /\ request_channel' = Tail(request_channel)
        /\ response_channel' =
               [response_channel EXCEPT ![Head(request_channel).response_channel] =
                    Append(@, block_header_process_request(Head(request_channel).req,
                                                          block_header_thread, rpc_ok))]
        /\ block_header_thread' = [block_header_thread EXCEPT !.pc = "while"]
        /\ UNCHANGED <<wire_vars, tree_vars, proof_vars, store_vars, call, running, listener>>

\* select!: default => sync_new_blocks(..)?; update_proof(..); sleep. An error of
\* sync_new_blocks and a panic of update_proof both end the thread and with it
\* main ("block header thread died").
SelectDefault ==
    \E latest \in HeaderCounts, ks \in SortedSamples(1, 1),
       overflow_checks \in BOOLEAN, rpc_ok \in BOOLEAN :
        LET synced == [block_header_thread EXCEPT !.headers = latest]
            created == create_new_proof(datastore, leaf_number,
                                        [i \in 1..Len(ks) |-> Weight(ks[i])],
                                        overflow_checks)
            updated == update_proof(synced,
                                    IF block_header_thread.mmr THEN leaf_number ELSE 0,
                                    created, SERVER_L, overflow_checks, rpc_ok)
        IN  /\ block_header_thread.pc = "select"
            /\ request_channel = <<>>
            /\ latest >= block_header_thread.headers
            /\ block_header_thread' =
                   IF updated.kind = "Return"
                   THEN [updated.value EXCEPT !.pc = "while"]
                   ELSE [synced EXCEPT !.pc = "died"]
            /\ UNCHANGED <<wire_vars, tree_vars, proof_vars, store_vars, call,
                           running, request_channel, response_channel, listener>>

\* the handler of Ctrl-C: r.store(false, Ordering::SeqCst)
CtrlC ==
    /\ running
    /\ listener.pc # "exited"
    /\ running' = FALSE
    /\ UNCHANGED <<wire_vars, tree_vars, proof_vars, store_vars, call,
                   request_channel, response_channel, listener, block_header_thread>>

\* handle_connection up to request_sender.send(..): the response channel of the
\* connection is made, the bytes are read and decoded; bytes that are no request
\* end the handler, a request is sent to the other thread
HandleConnectionSend ==
    \E buffer \in ServerBuffers :
        LET req == request_deserialize(buffer)
            channel == Len(response_channel) + 1
        IN  /\ listener.pc = "incoming"
            /\ Len(response_channel) < MaxConnections
            /\ response_channel' = Append(response_channel, <<>>)
            /\ listener' = Listener(IF req.kind = "Return" THEN "recv" ELSE "incoming",
                                    Append(listener.written, <<>>))
            /\ request_channel' =
                   IF req.kind = "Return"
                   THEN Append(request_channel, RequestOn(req.value, channel))
                   ELSE request_channel
            /\ UNCHANGED <<wire_vars, tree_vars, proof_vars, store_vars, call,
                           running, block_header_thread>>

\* handle_connection from response_receiver.recv() on: the response of the other
\* thread is written to the stream; of what was written the type is kept
HandleConnectionRecv ==
    LET channel == Len(response_channel)
    IN  /\ listener.pc = "recv"
        /\ response_channel[channel] # <<>>
        /\ response_channel' = [response_channel EXCEPT ![channel] = Tail(@)]
        /\ listener' =
               Listener("incoming",
                        [listener.written EXCEPT ![channel] =
                             Append(@, Head(response_channel[channel]).type)])
        /\ UNCHANGED <<wire_vars, tree_vars, proof_vars, store_vars, call,
                       running, request_channel, block_header_thread>>

\* run has returned or panicked: main ends and the process with it
ExitProcess ==
    /\ block_header_thread.pc \in {"exited", "died"}
    /\ listener.pc # "exited"
    /\ listener' = [listener EXCEPT !.pc = "exited"]
    /\ UNCHANGED <<wire_vars, tree_vars, proof_vars, store_vars, call,
                   running, request_channel, response_channel, block_header_thread>>

BlockHeaderThreadStep == LoadRunning \/ SelectRecv \/ SelectDefault

NextServer ==
    \/ LoadRunning
    \/ SelectRecv
    \/ SelectDefault
    \/ CtrlC
    \/ HandleConnectionSend
    \/ HandleConnectionRecv
    \/ ExitProcess

SpecServer == InitServer /\ [][NextServer]_vars

\* both threads are scheduled as long as they can take a step; nothing makes a
\* client connect or a user press Ctrl-C
SpecServerFair ==
    /\ SpecServer
    /\ WF_vars(BlockHeaderThreadStep)
    /\ WF_vars(HandleConnectionRecv)
    /\ WF_vars(ExitProcess)

\* the request of the connection is on the request channel
Queued(channel) ==
    \E i \in 1..Len(request_channel) : request_channel[i].response_channel = channel

\* one response was written to the stream of the connection
Answered(channel) ==
    /\ channel <= Len(listener.written)
    /\ Len(listener.written[channel]) = 1

\* C25: every request handle_connection places on the request channel is
\* eventually answered by the block header thread with exactly one Response, in
\* the order the requests were received, also when the running flag is cleared
\* while a request is queued
C25_EveryRequestAnswered ==
    /\ [](\A channel \in 1..Len(listener.written) : Len(listener.written[channel]) <= 1)
    /\ \A channel \in 1..MaxConnections : Queued(channel) ~> Answered(channel)

\* what does hold: a queued request is answered unless the running flag is
\* cleared or the thread dies in its default branch
AnsweredWhileRunning ==
    \A channel \in 1..MaxConnections :
        Queued(channel) ~>
            (Answered(channel) \/ ~running \/ block_header_thread.pc = "died")

\* what does hold: no stream gets a second response, and the requests are
\* received in the order they were sent
AtMostOneResponse ==
    /\ \A channel \in 1..Len(listener.written) : Len(listener.written[channel]) <= 1
    /\ \A i \in 1..(Len(request_channel) - 1) :
           request_channel[i].response_channel < request_channel[i + 1].response_channel


\* ------------------------------------------ the two trees, side by side
MaxTwinLeaves == 4
TwinDifficulties == {1, 2}
\* the weights k / TwinWeightDen, k in 0..TwinWeightDen
TwinWeightDen == 4

InitTwin == InitOf(TwinDifficulties)

\* the same leaf appended to persistent_mmr::MerkleTree and to mmr::MerkleTree
AppendLeafTwin == AppendLeafOf(TwinDifficulties, MaxTwinLeaves)

\* get_left_difficulty(k), asked of both trees
GetLeftDifficultyTwin ==
    \E k \in 0..leaf_number, overflow_checks \in BOOLEAN :
        /\ call' = [op |-> "get_left_difficulty", arg |-> k,
                    ret |-> get_left_difficulty(datastore, leaf_number, k),
                    twin |-> mmr_get_left_difficulty(merkle_tree, k, overflow_checks)]
        /\ UNCHANGED <<server_vars, wire_vars, tree_vars, proof_vars, store_vars>>

\* get_child_by_aggr_weight(weight), asked of both trees
GetChildByAggrWeightTwin ==
    \E k \in 0..TwinWeightDen, overflow_checks \in BOOLEAN :
        /\ call' = [op |-> "get_child_by_aggr_weight", arg |-> k,
                    ret |-> Return(get_child_by_aggr_weight(datastore, leaf_number,
                                       F64DivNat(k, TwinWeightDen))),
                    twin |-> mmr_get_child_by_aggr_weight(merkle_tree,
                                 F64DivNat(k, TwinWeightDen), overflow_checks)]
        /\ UNCHANGED <<server_vars, wire_vars, tree_vars, proof_vars, store_vars>>

NextTwin ==
    \/ AppendLeafTwin
    \/ GetLeftDifficultyTwin
    \/ GetChildByAggrWeightTwin

SpecTwin == InitTwin /\ [][NextTwin]_vars

Asked == call.op \in {"get_left_difficulty", "get_child_by_aggr_weight"}

\* C28: given the same leaves, mmr::MerkleTree and the store-based tree have
\* the same leaf number, root hash and root difficulty, and answer
\* get_left_difficulty(k) and get_child_by_aggr_weight(weight) alike, for
\* every k and every weight, the boundaries between subtrees included.
C28_TreesEquivalent ==
    /\ merkle_tree.leaf_number = leaf_number
    /\ merkle_tree.elem.hash = get_root_hash(datastore)
    /\ merkle_tree.elem.difficulty = get_root_difficulty(datastore)
    /\ Asked => call.twin = call.ret

\* the discrete weight the last get_child_by_aggr_weight call looked for
AskedWeightDisc ==
    F64AsU128(F64MulNat(F64DivNat(call.arg, TwinWeightDen), get_root_difficulty(datastore)))

\* the weight is where one leaf ends and the next begins
OnLeafBoundary(weight_disc) ==
    \E k \in 1..(leaf_number - 1) : weight_disc = SumDifficulty(leaves, 0, k)

\* the two trees have the same leaf number and root; on two leaves or more
\* they answer get_left_difficulty(k) alike for k < n, and
\* get_child_by_aggr_weight alike for every weight off the leaf boundaries
TreesAgreeOffTheBoundaries ==
    /\ merkle_tree.leaf_number = leaf_number
    /\ merkle_tree.elem.hash = get_root_hash(datastore)
    /\ merkle_tree.elem.difficulty = get_root_difficulty(datastore)
    /\ (call.op = "get_left_difficulty" /\ leaf_number >= 2 /\ call.arg < leaf_number)
           => call.twin = call.ret
    /\ (call.op = "get_child_by_aggr_weight" /\ leaf_number >= 2
            /\ ~OnLeafBoundary(AskedWeightDisc))
           => call.twin = call.ret

\* on a leaf boundary the tree of boxes answers the leaf that ends there and
\* the store-based tree the leaf that begins there
BoundaryGoesLeftInTheTreeOfBoxes ==
    (call.op = "get_child_by_aggr_weight" /\ leaf_number >= 2
         /\ OnLeafBoundary(AskedWeightDisc))
        => /\ call.twin.kind = "Return"
           /\ call.ret.value = call.twin.value + 1

\* get_left_difficulty(n): the tree of boxes returns the difficulty left of
\* the last leaf, the store-based tree does not return
WholeChainPrefixInTheTreeOfBoxes ==
    (call.op = "get_left_difficulty" /\ leaf_number >= 2 /\ call.arg = leaf_number)
        => /\ call.twin = Return(SumDifficulty(leaves, 0, leaf_number - 1))
           /\ call.ret.kind # "Return"

\* on a tree of one leaf the queries of the tree of boxes compute
\* 2u64.pow(depth - 1) with depth = 0: they end the process in a build that
\* checks overflow
OneLeafTreeOfBoxesPanics ==
    (Asked /\ leaf_number = 1)
        => \/ call.twin.kind = "Panic"
           \/ call.twin.kind = "Return" /\ call.twin.value = 0

====
